---- MODULE Spec2Model ----
(***************************************************************************)
(* State-machine model of the network-tools dashboard server:              *)
(*   - MemStorage, the in-memory store (server/storage.ts);                *)
(*   - the store routes /api/tools, /api/results, /api/events;             *)
(*   - the tool handlers under /api/tools/* in their three variants:       *)
(*       "attach"   attachRoutes, the serverless handlers,                 *)
(*       "register" registerRoutes calling the OS and the network,         *)
(*       "mock"     registerRoutes returning simulated data.               *)
(* JavaScript values are tagged records, so that null, undefined, numbers  *)
(* and strings stay distinct.  A string whose characters the code looks at *)
(* (a host name, a query parameter) is a sequence of one-character         *)
(* strings; a string the code only copies or compares is a TLA+ string.    *)
(***************************************************************************)
EXTENDS Integers, Sequences, FiniteSets, TLC

\* ------------------------------------------------------------------ bounds

\* Date.now() takes the values 0..MaxTime.
MaxTime == 1

\* Number of randomUUID() calls explored after construction.
MaxCreates == 2

\* ------------------------------------------------------------ JS values

Undefined == [t |-> "undefined"]

Null == [t |-> "null"]

NaN == [t |-> "NaN"]

Infinity == [t |-> "Infinity"]

NegInfinity == [t |-> "-Infinity"]

Num(n) == [t |-> "number", n |-> n]

Str(s) == [t |-> "string", s |-> s]

Chars(c) == [t |-> "chars", c |-> c]

Bool(b) == [t |-> "boolean", b |-> b]

Obj(o) == [t |-> "object", o |-> o]

Arr(a) == [t |-> "array", a |-> a]

\* ToBoolean: undefined, null, NaN, 0, "" and false are falsy.
Truthy(v) ==
  CASE v.t \in {"undefined", "null", "NaN"} -> FALSE
    [] v.t = "number" -> v.n # 0
    [] v.t = "string" -> v.s # ""
    [] v.t = "chars" -> v.c # <<>>
    [] v.t = "boolean" -> v.b
    [] OTHER -> TRUE

\* x || null
OrNull(v) == IF Truthy(v) THEN v ELSE Null

IsString(v) == v.t \in {"string", "chars"}

Digits == <<"0", "1", "2", "3", "4", "5", "6", "7", "8", "9">>

IsDigit(ch) == \E i \in 1..Len(Digits) : Digits[i] = ch

DigitValue(ch) == (CHOOSE i \in 1..Len(Digits) : Digits[i] = ch) - 1

RECURSIVE LeadingDigits(_)
LeadingDigits(c) ==
  IF c = <<>> \/ ~IsDigit(Head(c)) THEN <<>>
  ELSE <<Head(c)>> \o LeadingDigits(Tail(c))

RECURSIVE DecimalValue(_)
DecimalValue(d) ==
  IF d = <<>> THEN 0
  ELSE 10 * DecimalValue(SubSeq(d, 1, Len(d) - 1)) + DigitValue(d[Len(d)])

RECURSIVE SkipSpaces(_)
SkipSpaces(c) ==
  IF c # <<>> /\ Head(c) = " " THEN SkipSpaces(Tail(c)) ELSE c

\* parseInt(string): leading blanks, an optional sign, then decimal digits up to
\* the first other character; NaN when there is no digit.
parseInt(c) ==
  LET s == SkipSpaces(c)
      neg == s # <<>> /\ Head(s) = "-"
      body == IF s # <<>> /\ Head(s) \in {"-", "+"} THEN Tail(s) ELSE s
      d == LeadingDigits(body)
  IN  IF d = <<>> THEN NaN
      ELSE Num(IF neg THEN 0 - DecimalValue(d) ELSE DecimalValue(d))

\* Array.prototype.slice(0, end)
SliceTo(s, end) ==
  LET e == IF end < 0 THEN (IF Len(s) + end < 0 THEN 0 ELSE Len(s) + end)
           ELSE (IF end > Len(s) THEN Len(s) ELSE end)
  IN  SubSeq(s, 1, e)

\* ------------------------------------------------------------- the store

VARIABLES
  now,            \* Date.now(), in milliseconds
  issued,         \* the UUIDs randomUUID() has returned so far
  networkTools,   \* MemStorage.networkTools: the Map's entries in insertion order
  toolResults,    \* MemStorage.toolResults
  networkEvents,  \* MemStorage.networkEvents
  res             \* the response of the last store route or store call

\* A Map<string, T> is the sequence of its values in insertion order; each value
\* carries its key in the field id.
MapKeys(m) == {m[i].id : i \in 1..Len(m)}

MapHas(m, id) == id \in MapKeys(m)

MapGet(m, id) ==
  IF MapHas(m, id) THEN m[CHOOSE i \in 1..Len(m) : m[i].id = id] ELSE Undefined

\* Map.set keeps the position of a key that is present and appends a new key.
MapSet(m, id, v) ==
  IF MapHas(m, id)
  THEN [i \in 1..Len(m) |-> IF m[i].id = id THEN v ELSE m[i]]
  ELSE Append(m, v)

MapDelete(m, id) == SelectSeq(m, LAMBDA v : v.id # id)

defaultTools ==
  << [name |-> "Ping Tool", category |-> "discovery", icon |-> "satellite-dish"],
     [name |-> "Port Scanner", category |-> "discovery", icon |-> "search"],
     [name |-> "DNS Lookup", category |-> "dns", icon |-> "globe"],
     [name |-> "Whois Lookup", category |-> "dns", icon |-> "info-circle"],
     [name |-> "Speed Test", category |-> "monitoring", icon |-> "tachometer-alt"],
     [name |-> "Network Topology", category |-> "monitoring", icon |-> "project-diagram"],
     [name |-> "SSL Analyzer", category |-> "security", icon |-> "lock"],
     [name |-> "Vulnerability Scanner", category |-> "security", icon |-> "shield-alt"],
     [name |-> "Subnet Calculator", category |-> "tools", icon |-> "calculator"],
     [name |-> "Bandwidth Monitor", category |-> "monitoring", icon |-> "chart-line"] >>

mockEvents ==
  << [eventType |-> "device_connected", severity |-> "info", source |-> "network_monitor"],
     [eventType |-> "high_bandwidth", severity |-> "warning", source |-> "bandwidth_monitor"],
     [eventType |-> "security_alert", severity |-> "error", source |-> "security_scanner"],
     [eventType |-> "backup_completed", severity |-> "info", source |-> "backup_system"] >>

\* The UUIDs: the seeds take the first ones, in construction order.
SeedIds == 1..(Len(defaultTools) + Len(mockEvents))

UUIDs == 1..(Len(defaultTools) + Len(mockEvents) + MaxCreates)

\* The least element of a non-empty set of numbers.
Least(S) == CHOOSE x \in S : \A y \in S : x <= y

\* A faulty id source, for comparison: the next id counts the stored records, so
\* the id of a deleted record comes back.
SizeBasedId ==
  {Len(defaultTools) + Len(mockEvents)
     + Len(toolResults) + (Len(networkEvents) - Len(mockEvents))
     + (Len(networkTools) - Len(defaultTools)) + 1}

\* randomUUID() returns a version-4 UUID: 122 random bits.  A repeated value has
\* a probability no run observes, so the call returns a value not returned
\* before.  The values are opaque (the code only compares them), so which unused
\* value comes back changes no behaviour: the model takes the least one.  The set
\* is empty once the model's UUIDs are used up.
randomUUID == IF UUIDs \ issued = {} THEN {} ELSE {Least(UUIDs \ issued)}

initializeDefaultTools ==
  [i \in 1..Len(defaultTools) |->
     [id |-> i,
      name |-> Str(defaultTools[i].name),
      category |-> Str(defaultTools[i].category),
      description |-> Str("description"),
      icon |-> OrNull(Str(defaultTools[i].icon)),
      enabled |-> OrNull(Bool(TRUE)),
      createdAt |-> 0]]

initializeMockEvents ==
  [i \in 1..Len(mockEvents) |->
     [id |-> Len(defaultTools) + i,
      eventType |-> Str(mockEvents[i].eventType),
      severity |-> Str(mockEvents[i].severity),
      message |-> Str("message"),
      source |-> OrNull(Str(mockEvents[i].source)),
      metadata |-> OrNull(Null),
      resolved |-> OrNull(Bool(FALSE)),
      createdAt |-> 0]]

\* results.sort((a, b) => b.createdAt - a.createdAt): Array.prototype.sort is
\* stable, so records of one millisecond keep their order in the Map.
RECURSIVE SortByCreatedAtDesc(_)
SortByCreatedAtDesc(s) ==
  IF s = <<>> THEN <<>>
  ELSE LET x == Head(s)
           rest == SortByCreatedAtDesc(Tail(s))
       IN  SelectSeq(rest, LAMBDA e : e.createdAt > x.createdAt)
             \o <<x>>
             \o SelectSeq(rest, LAMBDA e : e.createdAt <= x.createdAt)

\* A faulty getToolResults, for comparison: the limit is applied before the
\* filter.
getToolResultsLimitFirst(toolName, limit) ==
  LET sorted == SortByCreatedAtDesc(toolResults)
      limited == IF Truthy(limit) THEN SliceTo(sorted, limit.n) ELSE sorted
  IN  IF Truthy(toolName)
      THEN SelectSeq(limited, LAMBDA r : r.toolName = toolName)
      ELSE limited

\* A faulty getToolResults, for comparison: every limit that is given is
\* applied, the limit 0 too.
getToolResultsSlicingZero(toolName, limit) ==
  LET filtered == IF Truthy(toolName)
                  THEN SelectSeq(toolResults, LAMBDA r : r.toolName = toolName)
                  ELSE toolResults
      sorted == SortByCreatedAtDesc(filtered)
  IN  IF limit # Undefined THEN SliceTo(sorted, limit.n) ELSE sorted

\* MemStorage.getToolResults(toolName?, limit?)
getToolResults(toolName, limit) ==
  LET all == toolResults
      filtered == IF Truthy(toolName)
                  THEN SelectSeq(all, LAMBDA r : r.toolName = toolName)
                  ELSE all
      sorted == SortByCreatedAtDesc(filtered)
  IN  IF Truthy(limit) THEN SliceTo(sorted, limit.n) ELSE sorted

\* MemStorage.getToolResult(id)
getToolResult(id) == MapGet(toolResults, id)

\* The record MemStorage.createToolResult builds from the insert, the id and the
\* time.
NewToolResult(result, id, time) ==
  [id |-> id,
   toolName |-> result.toolName,
   userId |-> OrNull(result.userId),
   parameters |-> OrNull(result.parameters),
   results |-> OrNull(result.results),
   status |-> result.status,
   executionTime |-> OrNull(result.executionTime),
   createdAt |-> time]

\* The record MemStorage.createNetworkTool builds.
NewNetworkTool(tool, id, time) ==
  [id |-> id,
   name |-> tool.name,
   category |-> tool.category,
   description |-> tool.description,
   icon |-> tool.icon,
   enabled |-> tool.enabled,
   createdAt |-> time]

\* MemStorage.getNetworkEvents(limit?)
getNetworkEvents(limit) ==
  LET sorted == SortByCreatedAtDesc(networkEvents)
  IN  IF Truthy(limit) THEN SliceTo(sorted, limit.n) ELSE sorted

\* The record MemStorage.createNetworkEvent builds.
NewNetworkEvent(event, id, time) ==
  [id |-> id,
   eventType |-> event.eventType,
   severity |-> event.severity,
   message |-> event.message,
   source |-> OrNull(event.source),
   metadata |-> OrNull(event.metadata),
   resolved |-> OrNull(event.resolved),
   createdAt |-> time]

\* { ...existing, ...patch }: a key the patch holds replaces the stored one.
Spread(existing, patch) ==
  [k \in DOMAIN existing |->
     IF k \in DOMAIN patch THEN patch[k] ELSE existing[k]]

storeVars == <<now, issued, networkTools, toolResults, networkEvents, res>>

NoResponse == [route |-> "none", req |-> Undefined, status |-> 0, body |-> Undefined]

StoreInit ==
  /\ now = 0
  /\ issued = SeedIds
  /\ networkTools = initializeDefaultTools
  /\ networkEvents = initializeMockEvents
  /\ toolResults = <<>>
  /\ res = NoResponse

\* The clock advances.
Tick ==
  /\ now < MaxTime
  /\ now' = now + 1
  /\ UNCHANGED <<issued, networkTools, toolResults, networkEvents, res>>

\* ------------------------------------------------------ MemStorage calls

\* A faulty createToolResult, for comparison: the Map is keyed by the tool name,
\* so a tool's result replaces its previous one.
createToolResultPerTool(result, id) ==
  /\ issued' = issued \cup {id}
  /\ toolResults' = Append(SelectSeq(toolResults,
                                     LAMBDA v : v.toolName # result.toolName),
                           NewToolResult(result, id, now))

\* MemStorage.createToolResult(result), with id the value randomUUID() returned.
createToolResult(result, id) ==
  /\ issued' = issued \cup {id}
  /\ toolResults' = MapSet(toolResults, id, NewToolResult(result, id, now))

\* A faulty deleteToolResult, for comparison: it empties the Map.
deleteToolResultClears(id) ==
  /\ toolResults' = <<>>

\* MemStorage.deleteToolResult(id); Map.delete returns whether the key was there.
deleteToolResult(id) ==
  /\ toolResults' = MapDelete(toolResults, id)

\* MemStorage.createNetworkEvent(event)
createNetworkEvent(event, id) ==
  /\ issued' = issued \cup {id}
  /\ networkEvents' = MapSet(networkEvents, id, NewNetworkEvent(event, id, now))

\* A faulty updateNetworkEvent, for comparison: the update takes the time of
\* the update as createdAt.
updateNetworkEventRestamping(id, patch) ==
  /\ networkEvents' = MapSet(networkEvents, id,
                             [Spread(MapGet(networkEvents, id), patch)
                                EXCEPT !.createdAt = now])

\* MemStorage.updateNetworkEvent(id, patch) for a stored id.
updateNetworkEvent(id, patch) ==
  /\ networkEvents' = MapSet(networkEvents, id, Spread(MapGet(networkEvents, id), patch))

\* MemStorage.createNetworkTool(tool): the insert's fields, the id and the time.
createNetworkTool(tool, id) ==
  /\ issued' = issued \cup {id}
  /\ networkTools' = MapSet(networkTools, id, NewNetworkTool(tool, id, now))

\* MemStorage.updateNetworkTool(id, patch) for a stored id.
updateNetworkTool(id, patch) ==
  /\ networkTools' = MapSet(networkTools, id, Spread(MapGet(networkTools, id), patch))

\* ------------------------------------------------- insert schemas (zod)

\* insertToolResultSchema.parse: toolName is a required string; status is an
\* optional string (the column is NOT NULL with a default); userId is an optional
\* nullable string, executionTime an optional nullable integer; parameters and
\* results are any JSON.
ValidInsertToolResult(b) ==
  /\ IsString(b.toolName)
  /\ b.userId.t \in {"undefined", "null", "string"}
  /\ b.status.t \in {"undefined", "string"}
  /\ b.executionTime.t \in {"undefined", "null", "number"}

\* insertNetworkEventSchema.parse: eventType, severity and message are required
\* strings; source is an optional nullable string, resolved an optional nullable
\* boolean; metadata is any JSON.
ValidInsertNetworkEvent(b) ==
  /\ IsString(b.eventType)
  /\ IsString(b.severity)
  /\ IsString(b.message)
  /\ b.source.t \in {"undefined", "null", "string"}
  /\ b.resolved.t \in {"undefined", "null", "boolean"}

\* ------------------------------------------------------- request inputs

ResultBody(toolName, status, executionTime) ==
  [toolName |-> toolName, userId |-> Undefined, parameters |-> Undefined,
   results |-> Undefined, status |-> status, executionTime |-> executionTime]

\* Bodies of POST /api/results: two the schema accepts, four it rejects.
ResultBodies ==
  { ResultBody(Str("ping"), Str("completed"), Num(12)),
    ResultBody(Str("dns-lookup"), Undefined, Num(0)),
    ResultBody(Undefined, Str("completed"), Undefined),
    ResultBody(Num(7), Str("completed"), Undefined),
    ResultBody(Str("ping"), Null, Undefined),
    ResultBody(Str("ping"), Str("completed"), Str("fast")) }

EventBody(eventType, severity, resolved) ==
  [eventType |-> eventType, severity |-> severity, message |-> Str("message"),
   source |-> Undefined, metadata |-> Undefined, resolved |-> resolved]

\* Bodies of POST /api/events: one the schema accepts, two it rejects.
EventBodies ==
  { EventBody(Str("link_down"), Str("warning"), Bool(FALSE)),
    EventBody(Undefined, Str("warning"), Undefined),
    EventBody(Str("link_down"), Str("warning"), Str("no")) }

\* The query parameters of GET /api/results and GET /api/events.
ToolNameQueries == {Undefined, Str("ping")}

LimitQueries == {Undefined, Chars(<<"0">>), Chars(<<"1">>), Chars(<<"2">>)}

\* The ids of the :id routes: those a create can return, one seeded tool's and one
\* seeded event's.
IdInputs == (UUIDs \ SeedIds) \cup {1, Len(defaultTools) + 1}

\* limit ? parseInt(limit as string) : undefined
LimitArg(limit) == IF Truthy(limit) THEN parseInt(limit.c) ELSE Undefined

Response(route, req, status, body) ==
  [route |-> route, req |-> req, status |-> status, body |-> body]

\* ----------------------------------------------------------- store routes

\* A faulty listing, for comparison: it reverses the stored catalog in place.
GetToolsReversing ==
  /\ res' = Response("GET /api/tools", Undefined, 200, Arr(networkTools))
  /\ networkTools' = [k \in 1..Len(networkTools) |-> networkTools[Len(networkTools) + 1 - k]]
  /\ UNCHANGED <<now, issued, toolResults, networkEvents>>

\* GET /api/tools
GetTools ==
  /\ res' = Response("GET /api/tools", Undefined, 200, Arr(networkTools))
  /\ UNCHANGED <<now, issued, networkTools, toolResults, networkEvents>>

\* GET /api/tools/:id
GetToolById(id) ==
  /\ res' = IF MapHas(networkTools, id)
            THEN Response("GET /api/tools/:id", [id |-> id], 200, MapGet(networkTools, id))
            ELSE Response("GET /api/tools/:id", [id |-> id], 404, Str("Tool not found"))
  /\ UNCHANGED <<now, issued, networkTools, toolResults, networkEvents>>

\* GET /api/results?toolName=&limit=
GetResults(toolName, limit) ==
  /\ res' = Response("GET /api/results", [toolName |-> toolName, limit |-> limit],
                     200, Arr(getToolResults(toolName, LimitArg(limit))))
  /\ UNCHANGED <<now, issued, networkTools, toolResults, networkEvents>>

\* A faulty POST /api/results, for comparison: the body is stored unparsed.
PostResultsUnchecked(body) ==
  /\ \E id \in randomUUID :
       /\ createToolResult(body, id)
       /\ res' = Response("POST /api/results", body, 201,
                          NewToolResult(body, id, now))
  /\ UNCHANGED <<now, networkTools, networkEvents>>

\* POST /api/results
PostResults(body) ==
  /\ IF ValidInsertToolResult(body)
     THEN \E id \in randomUUID :
            /\ createToolResult(body, id)
            /\ res' = Response("POST /api/results", body, 201,
                               NewToolResult(body, id, now))
     ELSE /\ res' = Response("POST /api/results", body, 400, Str("Invalid data"))
          /\ UNCHANGED <<issued, toolResults>>
  /\ UNCHANGED <<now, networkTools, networkEvents>>

\* GET /api/results/:id
GetResultById(id) ==
  /\ res' = IF MapHas(toolResults, id)
            THEN Response("GET /api/results/:id", [id |-> id], 200, getToolResult(id))
            ELSE Response("GET /api/results/:id", [id |-> id], 404, Str("Result not found"))
  /\ UNCHANGED <<now, issued, networkTools, toolResults, networkEvents>>

\* A faulty delete route, for comparison: it answers 204 whatever the store
\* held.
DeleteResultAlways204(id) ==
  /\ deleteToolResult(id)
  /\ res' = Response("DELETE /api/results/:id", [id |-> id], 204, Undefined)
  /\ UNCHANGED <<now, issued, networkTools, networkEvents>>

\* DELETE /api/results/:id
DeleteResult(id) ==
  /\ deleteToolResult(id)
  /\ res' = IF MapHas(toolResults, id)
            THEN Response("DELETE /api/results/:id", [id |-> id], 204, Undefined)
            ELSE Response("DELETE /api/results/:id", [id |-> id], 404, Str("Result not found"))
  /\ UNCHANGED <<now, issued, networkTools, networkEvents>>

\* GET /api/events?limit=
GetEvents(limit) ==
  /\ res' = Response("GET /api/events", [limit |-> limit], 200,
                     Arr(getNetworkEvents(LimitArg(limit))))
  /\ UNCHANGED <<now, issued, networkTools, toolResults, networkEvents>>

\* POST /api/events
PostEvents(body) ==
  /\ IF ValidInsertNetworkEvent(body)
     THEN \E id \in randomUUID :
            /\ createNetworkEvent(body, id)
            /\ res' = Response("POST /api/events", body, 201,
                               NewNetworkEvent(body, id, now))
     ELSE /\ res' = Response("POST /api/events", body, 400, Str("Invalid data"))
          /\ UNCHANGED <<issued, networkEvents>>
  /\ UNCHANGED <<now, networkTools, toolResults>>

\* ------------------------------------------------------ strings (chars)

\* String.prototype.split(sep) for a one-character separator.
RECURSIVE Split(_, _)
Split(c, sep) ==
  IF \A i \in 1..Len(c) : c[i] # sep THEN <<c>>
  ELSE LET k == CHOOSE i \in 1..Len(c) :
                  c[i] = sep /\ \A j \in 1..(i - 1) : c[j] # sep
       IN  <<SubSeq(c, 1, k - 1)>> \o Split(SubSeq(c, k + 1, Len(c)), sep)

\* Array.prototype.join(sep)
RECURSIVE Join(_, _)
Join(parts, sep) ==
  IF parts = <<>> THEN <<>>
  ELSE IF Len(parts) = 1 THEN parts[1]
  ELSE parts[1] \o <<sep>> \o Join(Tail(parts), sep)

\* String(n) for an integer n, as in a template literal.
RECURSIVE NatToChars(_)
NatToChars(n) ==
  IF n < 10 THEN <<Digits[n + 1]>>
  ELSE NatToChars(n \div 10) \o <<Digits[(n % 10) + 1]>>

IntToChars(n) == IF n < 0 THEN <<"-">> \o NatToChars(0 - n) ELSE NatToChars(n)

Letters == {"a", "b", "w"}

IsAlnum(ch) == ch \in Letters \/ IsDigit(ch)

\* One label of validateDomain's regular expression:
\* [a-zA-Z0-9]([a-zA-Z0-9-]{0,61}[a-zA-Z0-9])?
IsLabel(l) ==
  /\ Len(l) >= 1
  /\ Len(l) <= 63
  /\ IsAlnum(l[1])
  /\ IsAlnum(l[Len(l)])
  /\ \A i \in 1..Len(l) : IsAlnum(l[i]) \/ l[i] = "-"

\* validateDomain(domain): labels separated by dots.
validateDomain(c) ==
  LET labels == Split(c, ".")
  IN  \A i \in 1..Len(labels) : IsLabel(labels[i])

\* One octet of validateIPAddress's regular expression:
\* 25[0-5] | 2[0-4][0-9] | [01]?[0-9][0-9]?
IsOctet(o) ==
  /\ Len(o) \in 1..3
  /\ \A i \in 1..Len(o) : IsDigit(o[i])
  /\ Len(o) = 3 => DecimalValue(o) <= 255

\* validateIPAddress(ip): four octets separated by dots.
validateIPAddress(c) ==
  LET parts == Split(c, ".")
  IN  Len(parts) = 4 /\ \A i \in 1..4 : IsOctet(parts[i])

\* validatePort(port)
validatePort(port) == port >= 1 /\ port <= 65535

\* --------------------------------------------------------- tool handlers

VARIABLES
  req,     \* req[r]: the request handler r serves: its variant, tool and body
  pc,      \* pc[r]: where handler r stands: idle, an await it is suspended at, done
  resp,    \* resp[r]: the response handler r has sent
  calls,   \* calls[r]: the subprocess, socket, resolver and TLS calls r has started
  threw,   \* threw[r]: a statement of r's try block threw or an awaited call rejected
  local    \* local[r]: the handler's local variables

toolVars == <<req, pc, resp, calls, threw, local>>

\* The rate limiter of the serverless entry point.
VARIABLES
  ipToHits,  \* ipToHits[ip]: the bucket of a client IP: count and windowStart
  passed     \* the requests the limiter has seen, in order, each with its outcome

limiterVars == <<ipToHits, passed>>

\* The browser: the conversion utilities and the bandwidth monitor page.
VARIABLES
  conv,                \* the prefix length or mask handed to networkUtils, and what came back
  clock,               \* Date.now() of the browser, in milliseconds
  isMonitoring,        \* BandwidthMonitor: the state isMonitoring
  monitoringDuration,  \* the state monitoringDuration, in seconds
  bandwidthData,       \* the state bandwidthData
  intervalRef,         \* intervalRef.current: null or the id of the interval timer
  startTimeRef,        \* startTimeRef.current
  timers               \* the interval timers of the page that have not been cleared

clientVars == <<conv, clock, isMonitoring, monitoringDuration, bandwidthData,
                intervalRef, startTimeRef, timers>>

vars == <<now, issued, networkTools, toolResults, networkEvents, res,
          req, pc, resp, calls, threw, local, ipToHits, passed,
          conv, clock, isMonitoring, monitoringDuration, bandwidthData,
          intervalRef, startTimeRef, timers>>

\* The handlers that may be in flight together.
Reqs == {1, 2}

Variants == {"attach", "register", "mock"}

NoRequest == [variant |-> "none", tool |-> "none", body |-> Undefined]

NoLocal ==
  [start |-> 0, i |-> 0, t0 |-> 0, samples |-> <<>>, pings |-> <<>>,
   openPorts |-> <<>>, sock |-> <<>>]

NoReply == [status |-> 0, body |-> Undefined]

ToolInit ==
  /\ req = [r \in Reqs |-> NoRequest]
  /\ pc = [r \in Reqs |-> "idle"]
  /\ resp = [r \in Reqs |-> NoReply]
  /\ calls = [r \in Reqs |-> <<>>]
  /\ threw = [r \in Reqs |-> FALSE]
  /\ local = [r \in Reqs |-> NoLocal]

\* const { x = d } = req.body: the default replaces undefined only.
Default(v, d) == IF v.t = "undefined" THEN d ELSE v

\* The handler takes the request: req.body is destructured.
Accept(r, variant, tool, body) ==
  /\ pc[r] = "idle"
  /\ req' = [req EXCEPT ![r] = [variant |-> variant, tool |-> tool, body |-> body]]

\* res.status(status).json(body), after which the handler returns.
Respond(r, status, body) ==
  /\ resp' = [resp EXCEPT ![r] = [status |-> status, body |-> body]]
  /\ pc' = [pc EXCEPT ![r] = "done"]

\* An early return with 400: nothing is stored.
Reject(r, message) ==
  /\ Respond(r, 400, Str(message))
  /\ UNCHANGED <<issued, toolResults>>

\* A faulty catch block, for comparison: the failure is recorded as a result.
CatchAllRecordsFailure(r, message) ==
  /\ resp' = [resp EXCEPT ![r] = [status |-> 500, body |-> Str(message)]]
  /\ pc' = [pc EXCEPT ![r] = "done"]
  /\ threw' = [threw EXCEPT ![r] = TRUE]
  /\ \E id \in randomUUID :
       /\ issued' = issued \cup {id}
       /\ toolResults' = Append(toolResults,
                                [id |-> id, toolName |-> Str("failed"), userId |-> Null,
                                 parameters |-> Null, results |-> Null,
                                 status |-> Str("error"), executionTime |-> Null,
                                 createdAt |-> now])

\* The catch block of a handler: 500 with the handler's message and the error's.
CatchAll(r, message) ==
  /\ Respond(r, 500, Str(message))
  /\ threw' = [threw EXCEPT ![r] = TRUE]
  /\ UNCHANGED <<issued, toolResults>>

\* const toolResult = await storage.createToolResult({...}); res.json(toolResult)
Complete(r, toolName, parameters, results, executionTime) ==
  \E id \in randomUUID :
    LET insert == [toolName |-> Str(toolName), userId |-> Undefined,
                   parameters |-> parameters, results |-> results,
                   status |-> Str("completed"), executionTime |-> executionTime]
    IN  /\ createToolResult(insert, id)
        /\ Respond(r, 200, NewToolResult(insert, id, now))

\* What no tool handler touches.
ToolFrame ==
  UNCHANGED <<now, networkTools, networkEvents, res, ipToHits, passed, clientVars>>

\* A call to the operating system or the network starts.
Started(r, kind) == calls' = [calls EXCEPT ![r] = Append(@, kind)]

\* ------------------------------------------------------------------ ping

\* The host, domain and url parameters: missing, empty, well-formed, malformed.
HostInputs ==
  {Undefined, Chars(<<>>), Chars(<<"a", ".", "b">>), Chars(<<"a", " ", "b">>)}

CountInputs == {Undefined, Num(0), Num(1), Num(2), Num(5)}

\* A line of ping's output matching /time[=<]/, with what the three regular
\* expressions capture (null when one does not match).  ping prints times with
\* a fraction (time=0.4 ms): every reply time of the ping handlers, and what is
\* computed from them, is a number of tenths of a millisecond.
Reply(time, ttl, bytes) == [kind |-> "reply", time |-> time, ttl |-> ttl, bytes |-> bytes]

\* A line matching /Average/i and not /time[=<]/, and any other line.
AverageLine == [kind |-> "average"]

OtherLine == [kind |-> "other"]

\* What the ping subprocess may print.
PingOutputs ==
  { <<OtherLine>>,
    <<OtherLine, Reply(Num(100), Num(64), Num(32))>>,
    <<Reply(Num(4), Num(64), Num(32))>>,
    <<Reply(Num(100), Num(64), Num(32)), Reply(Num(300), Null, Null), AverageLine>> }

\* lines.filter(time[=<] or Average).filter(time[=<]).map(...)
ParsePing(stdout, host) ==
  LET replies == SelectSeq(stdout, LAMBDA l : l.kind = "reply")
  IN  [k \in 1..Len(replies) |->
         [sequence |-> k, host |-> host, time |-> replies[k].time,
          ttl |-> replies[k].ttl, bytes |-> replies[k].bytes]]

RECURSIVE Sum(_)
Sum(s) == IF s = <<>> THEN 0 ELSE Head(s) + Sum(Tail(s))

SeqMin(s) == CHOOSE x \in {s[i] : i \in 1..Len(s)} : \A i \in 1..Len(s) : x <= s[i]

SeqMax(s) == CHOOSE x \in {s[i] : i \in 1..Len(s)} : \A i \in 1..Len(s) : x >= s[i]

\* Math.round(a / b) for b > 0: the nearest integer, a half rounding up.  The
\* average of times in tenths, rounded to a whole millisecond, is
\* 10 * RoundDiv(sum, 10 * n).
RoundDiv(a, b) == (2 * a + b) \div (2 * b)

Max0(n) == IF n < 0 THEN 0 ELSE n

\* results.map(r => r.time || 0).filter(n => n > 0)
PingTimes(results) ==
  LET t == [k \in 1..Len(results) |->
              IF Truthy(results[k].time) THEN results[k].time.n ELSE 0]
  IN  SelectSeq(t, LAMBDA n : n > 0)

\* Faulty statistics, for comparison: the loss is not clamped at zero.
PingStatisticsUnclamped(count, results) ==
  LET times == PingTimes(results)
  IN  [sent |-> count,
       received |-> Len(results),
       lost |-> count.n - Len(results),
       lossPercent |-> IF count.n = 0 THEN NaN
                       ELSE Num(RoundDiv((count.n - Len(results)) * 100, count.n)),
       avgTime |-> IF times # <<>> THEN Num(10 * RoundDiv(Sum(times), 10 * Len(times)))
                   ELSE Null,
       minTime |-> IF times # <<>> THEN Num(SeqMin(times)) ELSE Null,
       maxTime |-> IF times # <<>> THEN Num(SeqMax(times)) ELSE Null]

\* Math.max(0, Math.round(((count - received) / count) * 100)).  With count = 0
\* the quotient is -Infinity (the maximum is 0) or, with nothing received, NaN.
LossPercent(count, received) ==
  IF count = 0
  THEN (IF received = 0 THEN NaN ELSE Num(0))
  ELSE Num(Max0(RoundDiv((count - received) * 100, count)))

\* The statistics object of the ping handlers that parse an output.
PingStatistics(count, results) ==
  LET times == PingTimes(results)
  IN  [sent |-> count,
       received |-> Len(results),
       lost |-> Max0(count.n - Len(results)),
       lossPercent |-> LossPercent(count.n, Len(results)),
       avgTime |-> IF times # <<>> THEN Num(10 * RoundDiv(Sum(times), 10 * Len(times)))
                   ELSE Null,
       minTime |-> IF times # <<>> THEN Num(SeqMin(times)) ELSE Null,
       maxTime |-> IF times # <<>> THEN Num(SeqMax(times)) ELSE Null]

PingParameters(body) ==
  Obj([host |-> body.host, count |-> Default(body.count, Num(4)),
       timeout |-> Default(body.timeout, Num(5000))])

\* From the parsed output to the stored result and the response.
PingFinish(r, stdout) ==
  LET body == req[r].body
      results == ParsePing(stdout, body.host)
  IN  Complete(r, "ping", PingParameters(body),
               Obj([pings |-> results,
                    statistics |-> PingStatistics(Default(body.count, Num(4)), results)]),
               Num(now - local[r].start))

\* Math.floor(Math.random() * 50) + 10 lies in 10..59 ms; the model draws the
\* ends, in tenths.
MockPingTimes == {100, 590}

\* POST /api/tools/ping up to its first await.  attach and register check the
\* host and start the ping subprocess; mock starts its loop of simulated replies.
PingReceive(r, variant, body) ==
  /\ Accept(r, variant, "ping", body)
  /\ IF variant = "mock" /\ Default(body.count, Num(4)).n < 1
     THEN \* the loop body never runs: reduce over no result is 0 / 0, Math.min()
          \* is Infinity and Math.max() is -Infinity
          /\ Complete(r, "ping", PingParameters(body),
                      Obj([pings |-> <<>>,
                           statistics |->
                             [sent |-> body.count, received |-> body.count.n, lost |-> 0,
                              lossPercent |-> Num(0),
                              avgTime |-> NaN,
                              minTime |-> Infinity,
                              maxTime |-> NegInfinity]]),
                      Num(body.count.n * 200))
          /\ UNCHANGED <<calls, local>>
     ELSE IF variant = "mock"
     THEN \E time \in MockPingTimes :
            /\ local' = [local EXCEPT ![r].i = 1,
                                      ![r].pings = <<[sequence |-> 1, host |-> body.host,
                                                      time |-> Num(time), ttl |-> Num(64),
                                                      bytes |-> Num(32)]>>]
            /\ pc' = [pc EXCEPT ![r] = "sleep"]
            /\ UNCHANGED <<resp, calls, issued, toolResults>>
     ELSE IF ~Truthy(body.host) \/ ~IsString(body.host)
          THEN /\ Reject(r, "host is required")
               /\ UNCHANGED <<calls, local>>
          ELSE /\ Started(r, "execFile")
               /\ local' = [local EXCEPT ![r].start = now]
               /\ pc' = [pc EXCEPT ![r] = "exec"]
               /\ UNCHANGED <<resp, issued, toolResults>>
  /\ UNCHANGED threw
  /\ ToolFrame

\* mock: the 200 ms timer of the loop fires; the loop goes on or the result is
\* stored.
MockPingTimer(r) ==
  /\ pc[r] = "sleep"
  /\ LET body == req[r].body
         count == Default(body.count, Num(4))
         results == local[r].pings
         times == [k \in 1..Len(results) |-> results[k].time.n]
     IN  IF local[r].i < count.n
         THEN \E time \in MockPingTimes :
                /\ local' = [local EXCEPT ![r].i = @ + 1,
                                          ![r].pings = Append(@, [sequence |-> local[r].i + 1,
                                                                   host |-> body.host,
                                                                   time |-> Num(time),
                                                                   ttl |-> Num(64),
                                                                   bytes |-> Num(32)])]
                /\ UNCHANGED <<pc, resp, issued, toolResults>>
         ELSE /\ Complete(r, "ping", PingParameters(body),
                          Obj([pings |-> results,
                               statistics |->
                                 [sent |-> count, received |-> count.n, lost |-> 0,
                                  lossPercent |-> Num(0),
                                  avgTime |-> Num(10 * (Sum(times) \div (10 * Len(times)))),
                                  minTime |-> Num(SeqMin(times)),
                                  maxTime |-> Num(SeqMax(times))]]),
                          Num(count.n * 200))
              /\ UNCHANGED local
  /\ UNCHANGED <<req, calls, threw>>
  /\ ToolFrame

\* The ping subprocess ends normally: its output is parsed and stored.  ping
\* exits with an error when its count argument is below 1.
PingExecReturns(r, stdout) ==
  /\ pc[r] = "exec"
  /\ Default(req[r].body.count, Num(4)).n >= 1
  /\ PingFinish(r, stdout)
  /\ UNCHANGED <<req, calls, threw, local>>
  /\ ToolFrame

\* A faulty number of probes, for comparison: count is not capped at 4.
TrialsUncapped(count) == IF count.n < 1 THEN 1 ELSE count.n

\* Math.max(1, Math.min(count, 4))
Trials(count) == IF count.n > 4 THEN 4 ELSE IF count.n < 1 THEN 1 ELSE count.n

\* ports[i % ports.length] with ports = [80, 443]
ProbePort(i) == IF i % 2 = 0 THEN 80 ELSE 443

\* new Socket() ... s.connect(port, host) of probe i
ProbeCall(i) == IF ProbePort(i) = 80 THEN "connect 80" ELSE "connect 443"

\* The ping subprocess fails (not installed, timeout, non-zero exit).  register:
\* the handler's catch answers 500.  attach: the inner catch starts the first TCP
\* probe.
PingExecFails(r) ==
  /\ pc[r] = "exec"
  /\ IF req[r].variant = "register"
     THEN /\ CatchAll(r, "Ping execution failed")
          /\ UNCHANGED <<calls, local>>
     ELSE /\ Started(r, ProbeCall(0))
          /\ threw' = [threw EXCEPT ![r] = TRUE]
          /\ local' = [local EXCEPT ![r].i = 0, ![r].t0 = now, ![r].samples = <<>>]
          /\ pc' = [pc EXCEPT ![r] = "probe"]
          /\ UNCHANGED <<resp, issued, toolResults>>
  /\ UNCHANGED req
  /\ ToolFrame

\* attach: the probe in flight settles, by connect (ok) or by timeout or error;
\* then the next probe starts, or the samples become the output to parse.
PingProbeSettles(r, ok) ==
  /\ pc[r] = "probe"
  /\ LET samples == IF ok THEN Append(local[r].samples, 10 * (now - local[r].t0))
                    ELSE local[r].samples
         next == local[r].i + 1
     IN  IF next < Trials(Default(req[r].body.count, Num(4)))
         THEN /\ Started(r, ProbeCall(next))
              /\ local' = [local EXCEPT ![r].i = next, ![r].t0 = now,
                                        ![r].samples = samples]
              /\ UNCHANGED <<pc, resp, issued, toolResults>>
         ELSE /\ PingFinish(r, [k \in 1..Len(samples) |->
                                  Reply(Num(samples[k]), Null, Null)])
              /\ local' = [local EXCEPT ![r].i = next, ![r].samples = samples]
              /\ UNCHANGED calls
  /\ UNCHANGED <<req, threw>>
  /\ ToolFrame

\* ------------------------------------------------------------- port scan

\* The cap on endPort - startPort + 1 in attachRoutes: 2000 in the source, scaled
\* down with the ranges the model scans.
maxRange == 2

\* registerRoutes has no cap: the model follows its scans up to this many ports.
MaxSpan == 3

\* The batch sizes: 100 (attachRoutes) and 200 (registerRoutes) in the source,
\* scaled down with the ranges the model scans.
concurrencyAttach == 1

concurrencyRegister == 2

concurrency(variant) ==
  IF variant = "attach" THEN concurrencyAttach ELSE concurrencyRegister

\* The startPort and endPort parameters.
PortInputs == {0, 1, 2, 3, 22, 23}

\* The pairs startPort, endPort: every pair of the ports above, and one range
\* that ends beyond the last port.
PortRanges == (PortInputs \X PortInputs) \cup {<<8443, 65536>>}

commonPorts == <<22, 23, 53, 80, 110, 143, 443, 993, 995, 3389, 8080, 8443>>

serviceNames ==
  <<"SSH", "Telnet", "DNS", "HTTP", "POP3", "IMAP", "HTTPS", "IMAPS", "POP3S",
    "RDP", "HTTP-Alt", "HTTPS-Alt">>

\* serviceMap[port] || fallback
serviceMap(port, fallback) ==
  IF \E k \in 1..Len(commonPorts) : commonPorts[k] = port
  THEN Str(serviceNames[CHOOSE k \in 1..Len(commonPorts) : commonPorts[k] = port])
  ELSE fallback

\* A faulty port list, for comparison: it starts one port too high.
PortListShifted(startPort, endPort) ==
  [k \in 1..(endPort - startPort + 1) |-> startPort + k]

\* Array.from({ length: endPort - startPort + 1 }, (_, i) => startPort + i)
PortList(startPort, endPort) ==
  [k \in 1..(endPort - startPort + 1) |-> startPort + k - 1]

\* The subsequences of a sequence: what a filter with a random test may keep.
RECURSIVE SubSeqs(_)
SubSeqs(s) ==
  IF s = <<>> THEN {<<>>}
  ELSE LET rest == SubSeqs(Tail(s))
       IN  rest \cup {<<Head(s)>> \o t : t \in rest}

\* openPorts.map(...) and the results object both port-scan handlers store.
ScanResults(body, open, protocol, fallback) ==
  Obj([host |-> body.host,
       openPorts |-> [k \in 1..Len(open) |->
                        [port |-> open[k], protocol |-> protocol, state |-> "open",
                         service |-> serviceMap(open[k], fallback)]],
       totalScanned |-> body.endPort.n - body.startPort.n + 1,
       openCount |-> Len(open)])

ScanParameters(body) ==
  Obj([host |-> body.host, startPort |-> body.startPort, endPort |-> body.endPort])

\* The range test of the two handlers that open sockets.
InvalidRange(variant, startPort, endPort) ==
  \/ startPort < 1
  \/ endPort > 65535
  \/ startPort > endPort
  \/ (variant = "attach" /\ endPort - startPort + 1 > maxRange)

\* A socket tryConnect has not created yet.
NoSocket ==
  [started |-> FALSE, done |-> FALSE, timer |-> "none", connect |-> "none",
   outcome |-> "none", late |-> FALSE]

\* tryConnect(port): a new socket, done = false, the 750 ms timer armed, the
\* connect listener registered, the connection requested.
tryConnect ==
  [started |-> TRUE, done |-> FALSE, timer |-> "armed", connect |-> "registered",
   outcome |-> "none", late |-> FALSE]

\* A faulty batch, for comparison: it starts one port early, at the last port of
\* the batch before.
BatchOverlapping(ports, i, size) ==
  {ports[k] : k \in {k \in 1..Len(ports) : k >= i /\ k <= i + size}}

\* A faulty batch, for comparison: every remaining port, whatever the size.
BatchUnsliced(ports, i, size) ==
  {ports[k] : k \in {k \in 1..Len(ports) : k > i}}

\* The ports of the batch that starts at index i (0-based) of ports.
Batch(ports, i, size) ==
  {ports[k] : k \in {k \in 1..Len(ports) : k > i /\ k <= i + size}}

\* batch.map(tryConnect): every socket of the batch is created in one go.
StartBatch(sock, ports, i, size) ==
  [p \in DOMAIN sock |-> IF p \in Batch(ports, i, size) THEN tryConnect ELSE sock[p]]

\* POST /api/tools/port-scan up to its first await.  mock filters commonPorts by
\* the range and a random test and stores the result.  attach and register check
\* the host and the range and start the first batch of sockets.
PortScanReceive(r, variant, body) ==
  /\ Accept(r, variant, "port-scan", body)
  /\ LET startPort == body.startPort.n
         endPort == body.endPort.n
         ports == PortList(startPort, endPort)
     IN  IF variant = "mock"
         THEN \E open \in SubSeqs(SelectSeq(commonPorts,
                                            LAMBDA p : p >= startPort /\ p <= endPort)) :
                /\ Complete(r, "port-scan",
                            Obj([host |-> body.host, startPort |-> body.startPort,
                                 endPort |-> body.endPort, scanType |-> Str("tcp")]),
                            ScanResults(body, open, "TCP", Str("Unknown")),
                            Num(3000))
                /\ UNCHANGED <<calls, local>>
         ELSE IF ~Truthy(body.host)
         THEN /\ Reject(r, "host is required")
              /\ UNCHANGED <<calls, local>>
         ELSE IF InvalidRange(variant, startPort, endPort)
         THEN /\ Reject(r, "invalid port range")
              /\ UNCHANGED <<calls, local>>
         ELSE /\ Len(ports) <= MaxSpan
              /\ local' = [local EXCEPT
                             ![r].start = now,
                             ![r].i = 0,
                             ![r].openPorts = <<>>,
                             ![r].sock = StartBatch([p \in {ports[k] : k \in 1..Len(ports)} |-> NoSocket],
                                                    ports, 0, concurrency(variant))]
              /\ calls' = [calls EXCEPT ![r] =
                             @ \o [k \in 1..Cardinality(Batch(ports, 0, concurrency(variant)))
                                     |-> "socket"]]
              /\ pc' = [pc EXCEPT ![r] = "scan"]
              /\ UNCHANGED <<resp, issued, toolResults>>
  /\ UNCHANGED threw
  /\ ToolFrame

\* A faulty connect listener, for comparison: it records the port without
\* looking at done.
ConnectAlwaysRecords(socket) == TRUE

\* if (!done) in the connect listener: the port is recorded only while the
\* attempt is unsettled.
ConnectRecords(socket) == ~socket.done

\* The connect listener of the socket of port p runs (it is registered with once).
SocketConnect(r, p) ==
  /\ pc[r] = "scan"
  /\ p \in DOMAIN local[r].sock
  /\ local[r].sock[p].connect = "registered"
  /\ LET socket == local[r].sock[p]
     IN  IF ConnectRecords(socket)
         THEN local' = [local EXCEPT
                          ![r].sock[p] = [socket EXCEPT !.done = TRUE,
                                                        !.timer = IF @ = "armed" THEN "cleared" ELSE @,
                                                        !.connect = "ran",
                                                        !.late = socket.done,
                                                        !.outcome = IF socket.done THEN @ ELSE "connect"],
                          ![r].openPorts = Append(@, p)]
         ELSE local' = [local EXCEPT
                          ![r].sock[p] = [socket EXCEPT !.connect = "ran", !.late = TRUE]]
  /\ UNCHANGED <<req, pc, resp, calls, threw, issued, toolResults>>
  /\ ToolFrame

\* The error listener of the socket of port p runs before the attempt settled (once
\* it has settled the listener changes nothing).
SocketError(r, p) ==
  /\ pc[r] = "scan"
  /\ p \in DOMAIN local[r].sock
  /\ local[r].sock[p].started
  /\ ~local[r].sock[p].done
  /\ local' = [local EXCEPT ![r].sock[p].done = TRUE,
                            ![r].sock[p].timer = "cleared",
                            ![r].sock[p].outcome = "error"]
  /\ UNCHANGED <<req, pc, resp, calls, threw, issued, toolResults>>
  /\ ToolFrame

\* A faulty timer callback, for comparison: it destroys the socket and leaves the
\* attempt unresolved.
SocketTimeoutDestroysOnly(r, p) ==
  /\ pc[r] = "scan"
  /\ p \in DOMAIN local[r].sock
  /\ local[r].sock[p].timer = "armed"
  /\ local' = [local EXCEPT ![r].sock[p].timer = "fired",
                            ![r].sock[p].connect = "ran"]
  /\ UNCHANGED <<req, pc, resp, calls, threw, issued, toolResults>>
  /\ ToolFrame

\* The 750 ms timer of the socket of port p fires: it was not cleared, so the
\* attempt is unsettled; the socket is destroyed.
SocketTimeout(r, p) ==
  /\ pc[r] = "scan"
  /\ p \in DOMAIN local[r].sock
  /\ local[r].sock[p].timer = "armed"
  /\ local' = [local EXCEPT ![r].sock[p].timer = "fired",
                            ![r].sock[p].done = TRUE,
                            ![r].sock[p].outcome =
                              IF local[r].sock[p].done THEN @ ELSE "timeout"]
  /\ UNCHANGED <<req, pc, resp, calls, threw, issued, toolResults>>
  /\ ToolFrame

\* await Promise.all(batch.map(tryConnect)) resumes once every attempt of the
\* batch has resolved: the next batch starts, or the open ports are stored.
ScanContinue(r) ==
  /\ pc[r] = "scan"
  /\ LET body == req[r].body
         ports == PortList(body.startPort.n, body.endPort.n)
         size == concurrency(req[r].variant)
         next == local[r].i + size
     IN  /\ \A p \in Batch(ports, local[r].i, size) : local[r].sock[p].done
         /\ IF next < Len(ports)
            THEN /\ local' = [local EXCEPT ![r].i = next,
                                           ![r].sock = StartBatch(@, ports, next, size)]
                 /\ calls' = [calls EXCEPT ![r] =
                                @ \o [k \in 1..Cardinality(Batch(ports, next, size))
                                        |-> "socket"]]
                 /\ UNCHANGED <<pc, resp, issued, toolResults>>
            ELSE /\ Complete(r, "port-scan", ScanParameters(body),
                             ScanResults(body, local[r].openPorts, "TCP", Null),
                             Num(now - local[r].start))
                 /\ UNCHANGED <<calls, local>>
  /\ UNCHANGED <<req, threw>>
  /\ ToolFrame

\* ------------------------------------------------ dns, whois, ssl-analyze

RecordTypeInputs == {Undefined, Str("MX"), Str("PTR")}

\* A faulty switch, for comparison: PTR has a case of its own.
SupportedRecordTypesAndPTR ==
  {Str("A"), Str("AAAA"), Str("MX"), Str("TXT"), Str("CNAME"), Str("NS"),
   Str("SRV"), Str("SOA"), Str("PTR")}

\* The cases of the switch in the dns-lookup handlers.
SupportedRecordTypes ==
  {Str("A"), Str("AAAA"), Str("MX"), Str("TXT"), Str("CNAME"), Str("NS"),
   Str("SRV"), Str("SOA")}

\* The resolver function the case of a record type awaits.
Resolver(recordType) ==
  CASE recordType = Str("A") -> "resolve4"
    [] recordType = Str("AAAA") -> "resolve6"
    [] recordType = Str("MX") -> "resolveMx"
    [] recordType = Str("TXT") -> "resolveTxt"
    [] recordType = Str("CNAME") -> "resolveCname"
    [] recordType = Str("NS") -> "resolveNs"
    [] recordType = Str("SRV") -> "resolveSrv"
    [] recordType = Str("SOA") -> "resolveSoa"
    [] OTHER -> "resolve"

\* The keys of mockRecords in the simulated dns-lookup handler.
MockRecordTypes ==
  {Str("A"), Str("AAAA"), Str("MX"), Str("TXT"), Str("CNAME"), Str("NS")}

\* Math.floor(Math.random() * 100) + 10 lies in 10..109; the model draws the ends.
MockQueryTimes == {10, 109}

\* POST /api/tools/dns-lookup up to its first await.
DnsReceive(r, variant, body) ==
  /\ Accept(r, variant, "dns-lookup", body)
  /\ LET recordType == Default(body.recordType, Str("A"))
     IN  IF variant = "mock"
         THEN IF ~IsString(body.domain)
              THEN \* domain.includes(...) on undefined throws a TypeError
                   /\ CatchAll(r, "DNS lookup failed")
                   /\ UNCHANGED <<calls, local>>
              ELSE \E queryTime \in MockQueryTimes :
                     /\ Complete(r, "dns-lookup",
                                 Obj([domain |-> body.domain, recordType |-> recordType,
                                      dnsServer |-> Undefined]),
                                 Obj([domain |-> body.domain, recordType |-> recordType,
                                      records |-> IF recordType \in MockRecordTypes
                                                  THEN "records" ELSE "none",
                                      queryTime |-> queryTime,
                                      server |-> "8.8.8.8",
                                      status |-> IF recordType \in MockRecordTypes
                                                 THEN "NOERROR" ELSE "NXDOMAIN"]),
                                 Num(queryTime))
                     /\ UNCHANGED <<calls, local, threw>>
         ELSE IF ~Truthy(body.domain)
         THEN /\ Reject(r, "domain is required")
              /\ UNCHANGED <<calls, local, threw>>
         ELSE IF recordType \notin SupportedRecordTypes
         THEN /\ Reject(r, "unsupported recordType")
              /\ UNCHANGED <<calls, local, threw>>
         ELSE /\ Started(r, Resolver(recordType))
              /\ local' = [local EXCEPT ![r].start = now]
              /\ pc' = [pc EXCEPT ![r] = "resolve"]
              /\ UNCHANGED <<resp, threw, issued, toolResults>>
  /\ ToolFrame

\* The resolver call returns its records.
DnsResolves(r) ==
  /\ pc[r] = "resolve"
  /\ LET body == req[r].body
         recordType == Default(body.recordType, Str("A"))
     IN  Complete(r, "dns-lookup",
                  Obj([domain |-> body.domain, recordType |-> recordType]),
                  Obj([domain |-> body.domain, recordType |-> recordType,
                       records |-> "records"]),
                  Num(now - local[r].start))
  /\ UNCHANGED <<req, calls, threw, local>>
  /\ ToolFrame

\* The resolver call rejects (ENOTFOUND, ENODATA, a timeout).
DnsRejects(r) ==
  /\ pc[r] = "resolve"
  /\ CatchAll(r, "DNS lookup failed")
  /\ UNCHANGED <<req, calls, local>>
  /\ ToolFrame

\* POST /api/tools/whois-lookup up to its first await.
WhoisReceive(r, variant, body) ==
  /\ Accept(r, variant, "whois-lookup", body)
  /\ IF variant = "mock"
     THEN \E dnssec \in BOOLEAN :
            /\ Complete(r, "whois-lookup", Obj([domain |-> body.domain]),
                        Obj([domain |-> body.domain, dnssec |-> dnssec]), Num(1500))
            /\ UNCHANGED <<calls, local>>
     ELSE IF ~Truthy(body.domain)
     THEN /\ Reject(r, "domain is required")
          /\ UNCHANGED <<calls, local>>
     ELSE /\ Started(r, "whois")
          /\ local' = [local EXCEPT ![r].start = now]
          /\ pc' = [pc EXCEPT ![r] = "whois"]
          /\ UNCHANGED <<resp, issued, toolResults>>
  /\ UNCHANGED threw
  /\ ToolFrame

\* The whois library returns its data.
WhoisResolves(r) ==
  /\ pc[r] = "whois"
  /\ Complete(r, "whois-lookup", Obj([domain |-> req[r].body.domain]),
              Obj([data |-> "whois"]), Num(now - local[r].start))
  /\ UNCHANGED <<req, calls, threw, local>>
  /\ ToolFrame

\* The whois library rejects.
WhoisRejects(r) ==
  /\ pc[r] = "whois"
  /\ CatchAll(r, "Whois lookup failed")
  /\ UNCHANGED <<req, calls, local>>
  /\ ToolFrame

\* The url parameter: missing, a URL, not a URL.
UrlInputs ==
  {Undefined,
   Chars(<<"w", ":", "/", "/", "a", ".", "b">>),
   Chars(<<"a", " ", "b">>)}

SslPortInputs == {Undefined, Num(0), Num(70000)}

\* new URL(url) parses (else it throws a TypeError): here a one-letter scheme,
\* "://" and a non-empty host without blanks stand for the URLs it accepts.
IsURL(url) ==
  /\ url.t = "chars"
  /\ Len(url.c) > 4
  /\ url.c[1] \in Letters
  /\ SubSeq(url.c, 2, 4) = <<":", "/", "/">>
  /\ \A k \in 5..Len(url.c) : url.c[k] # " "

\* new URL(url).hostname
Hostname(url) == Chars(SubSeq(url.c, 5, Len(url.c)))

\* POST /api/tools/ssl-analyze up to its first await.
SslReceive(r, variant, body) ==
  /\ Accept(r, variant, "ssl-analyze", body)
  /\ LET port == Default(body.port, Num(443))
     IN  IF variant # "mock" /\ ~Truthy(body.url)
         THEN /\ Reject(r, "url is required")
              /\ UNCHANGED <<calls, local, threw>>
         ELSE IF ~IsURL(body.url)
         THEN /\ CatchAll(r, "SSL analysis failed")
              /\ UNCHANGED <<calls, local>>
         ELSE IF variant = "mock"
         THEN \E valid \in BOOLEAN, grade \in {"A", "B"} :
                /\ Complete(r, "ssl-analyze", Obj([url |-> body.url, port |-> port]),
                            Obj([hostname |-> Hostname(body.url), port |-> port,
                                 valid |-> valid, grade |-> grade,
                                 warnings |-> IF valid THEN <<>> ELSE <<"expired">>]),
                            Num(2000))
                /\ UNCHANGED <<calls, local, threw>>
         ELSE IF port.n < 0 \/ port.n > 65535
         THEN \* tls.connect throws ERR_SOCKET_BAD_PORT before it opens a socket
              /\ CatchAll(r, "SSL analysis failed")
              /\ UNCHANGED <<calls, local>>
         ELSE /\ Started(r, "tls.connect")
              /\ local' = [local EXCEPT ![r].start = now]
              /\ pc' = [pc EXCEPT ![r] = "tls"]
              /\ UNCHANGED <<resp, threw, issued, toolResults>>
  /\ ToolFrame

\* The TLS handshake completes and the certificate is read.
SslResolves(r, valid) ==
  /\ pc[r] = "tls"
  /\ LET body == req[r].body
         port == Default(body.port, Num(443))
     IN  /\ Complete(r, "ssl-analyze", Obj([url |-> body.url, port |-> port]),
                     Obj([hostname |-> Hostname(body.url), port |-> port,
                          valid |-> valid, warnings |-> <<>>]),
                     Num(now - local[r].start))
  /\ UNCHANGED <<req, calls, threw, local>>
  /\ ToolFrame

\* The socket emits error (a timeout destroys it with one), or reading the
\* certificate throws.
SslRejects(r) ==
  /\ pc[r] = "tls"
  /\ CatchAll(r, "SSL analysis failed")
  /\ UNCHANGED <<req, calls, local>>
  /\ ToolFrame

\* ------------------------------------------------------ subnet-calculate

\* The largest subnetCount the model submits.
MaxSubnetCount == 2

IpInputs == {Undefined, Chars(<<"1", ".", "2", ".", "3", ".", "0">>)}

\* Mask lengths the client's form offers: /8, /24, /29, /30 of subnetMaskOptions.
MaskInputs ==
  {Chars(<<"8">>), Chars(<<"2", "4">>), Chars(<<"2", "9">>), Chars(<<"3", "0">>)}

SubnetCountInputs == {Num(n) : n \in 1..MaxSubnetCount}

\* Math.pow(2, n) for an integer n >= 0
RECURSIVE Pow2(_)
Pow2(n) == IF n = 0 THEN 1 ELSE 2 * Pow2(n - 1)

\* `${baseIP}.${n}`
Address(baseIP, n) == baseIP \o <<".">> \o IntToChars(n)

\* The body of the for loop: the subnet with index i (0-based).
Subnet(baseIP, maskBits, subnetSize, i) ==
  LET networkStart == i * subnetSize
  IN  [subnetNumber |-> i + 1,
       network |-> Address(baseIP, networkStart) \o <<"/">> \o IntToChars(maskBits + 2),
       firstHost |-> Address(baseIP, networkStart + 1),
       lastHost |-> Address(baseIP, networkStart + subnetSize - 2),
       broadcast |-> Address(baseIP, networkStart + subnetSize - 1),
       hostCount |-> subnetSize - 2]

\* The results object of the subnet handlers.
SubnetResults(ipAddress, subnetMask, subnetCount) ==
  LET baseIP == Join(SliceTo(Split(ipAddress.c, "."), 3), ".")
      maskBits == parseInt(subnetMask.c).n
      subnetSize == Pow2(32 - maskBits - 2)
  IN  Obj([originalNetwork |-> ipAddress.c \o <<"/">> \o IntToChars(maskBits),
           subnets |-> [k \in 1..subnetCount.n |->
                          Subnet(baseIP, maskBits, subnetSize, k - 1)],
           totalHosts |-> (subnetSize - 2) * subnetCount.n])

\* POST /api/tools/subnet-calculate: no await before the result is stored.
SubnetReceive(r, variant, body) ==
  /\ Accept(r, variant, "subnet-calculate", body)
  /\ LET subnetCount == Default(body.subnetCount, Num(4))
     IN  IF variant = "attach" /\ (~Truthy(body.ipAddress) \/ ~Truthy(body.subnetMask))
         THEN /\ Reject(r, "ipAddress and subnetMask are required")
              /\ UNCHANGED threw
         ELSE IF ~IsString(body.ipAddress)
         THEN \* ipAddress.split('.') on undefined throws a TypeError
              CatchAll(r, "Subnet calculation failed")
         ELSE /\ Complete(r, "subnet-calculate",
                          Obj([ipAddress |-> body.ipAddress, subnetMask |-> body.subnetMask,
                               subnetCount |-> subnetCount]),
                          SubnetResults(body.ipAddress, body.subnetMask, subnetCount),
                          Num(IF variant = "attach" THEN 300 ELSE 500))
              /\ UNCHANGED threw
  /\ UNCHANGED <<calls, local>>
  /\ ToolFrame

\* ------------------------------------------ speed-test, vulnerability-scan

\* Math.floor(Math.random() * 80) + 20 and Math.floor(Math.random() * 30) + 10:
\* the model draws the ends of the two ranges.
DownloadSpeeds == {20, 99}

PingSpeeds == {10, 39}

\* POST /api/tools/speed-test: attach stores a placeholder, register and mock
\* random figures.
SpeedTestReceive(r, variant) ==
  /\ Accept(r, variant, "speed-test", Undefined)
  /\ IF variant = "attach"
     THEN Complete(r, "speed-test", Obj(<<>>),
                   Obj([download |-> Null, upload |-> Null, ping |-> Null,
                        jitter |-> Null, server |-> "vercel", timestamp |-> now]),
                   Num(1000))
     ELSE \E download \in DownloadSpeeds, ping \in PingSpeeds :
            Complete(r, "speed-test", Obj(<<>>),
                     Obj([download |-> Num(download), upload |-> Num(5),
                          ping |-> Num(ping), jitter |-> Num(1),
                          server |-> "speedtest.example.com", timestamp |-> now]),
                     Num(15000))
  /\ UNCHANGED <<calls, threw, local>>
  /\ ToolFrame

\* The scan options of the vulnerability scanner, all set or all missing.
ScanOptionInputs == {Undefined, Bool(TRUE)}

\* The severities of mockVulnerabilities[0..2] and of the critical entry, in the
\* order the handler pushes them.
mockVulnerabilities == <<"high", "medium", "low", "critical">>

\* Math.floor(Math.random() * 30) + 15 lies in 15..44; the model draws the ends.
ScanTimes == {15, 44}

\* POST /api/tools/vulnerability-scan: attach stores an empty report; register
\* and mock keep each entry whose option is set and whose random test passes.
VulnScanReceive(r, variant, option) ==
  /\ Accept(r, variant, "vulnerability-scan", [target |-> Undefined, option |-> option])
  /\ IF variant = "attach"
     THEN Complete(r, "vulnerability-scan", Obj([target |-> Undefined]),
                   Obj([target |-> Undefined, scanTime |-> 5, vulnerabilities |-> <<>>,
                        total |-> 0]),
                   Num(5000))
     ELSE \E found \in SubSeqs(IF Truthy(option) THEN mockVulnerabilities ELSE <<>>),
             scanTime \in ScanTimes :
            Complete(r, "vulnerability-scan",
                     Obj([target |-> Undefined, options |-> option]),
                     Obj([target |-> Undefined, scanTime |-> scanTime,
                          vulnerabilities |-> found, total |-> Len(found)]),
                     Num(scanTime * 1000))
  /\ UNCHANGED <<calls, threw, local>>
  /\ ToolFrame

\* --------------------------------------------------- calls on MemStorage

\* The inserts given to createNetworkTool and the patches given to the updates.
ToolInserts ==
  { [name |-> Str("Traceroute"), category |-> Str("discovery"),
     description |-> Str("description"), icon |-> Null, enabled |-> Bool(TRUE)] }

ToolPatches == { [enabled |-> Bool(FALSE)] }

EventPatches ==
  { [resolved |-> Bool(TRUE)],
    [severity |-> Str("error"), message |-> Str("edited")] }

\* The ids given to the updates: a seeded tool's and a seeded event's.
UpdateIds == {1, Len(defaultTools) + 1}

\* The inserts the callers pass: bodies the schemas accepted.
ResultInserts == {ResultBody(Str("ping"), Str("completed"), Num(12))}

EventInserts == {b \in EventBodies : ValidInsertNetworkEvent(b)}

\* storage.createToolResult(result)
CallCreateToolResult(result) ==
  /\ \E id \in randomUUID :
       /\ createToolResult(result, id)
       /\ res' = Response("createToolResult", result, 0, NewToolResult(result, id, now))
  /\ UNCHANGED <<now, networkTools, networkEvents>>

\* storage.getToolResult(id)
CallGetToolResult(id) ==
  /\ res' = Response("getToolResult", [id |-> id], 0, getToolResult(id))
  /\ UNCHANGED <<now, issued, networkTools, toolResults, networkEvents>>

\* storage.getToolResults(undefined, limit)
CallGetToolResults(limit) ==
  /\ res' = Response("getToolResults", limit, 0, Arr(getToolResults(Undefined, limit)))
  /\ UNCHANGED <<now, issued, networkTools, toolResults, networkEvents>>

\* storage.deleteToolResult(id)
CallDeleteToolResult(id) ==
  /\ deleteToolResult(id)
  /\ res' = Response("deleteToolResult", [id |-> id], 0, Bool(MapHas(toolResults, id)))
  /\ UNCHANGED <<now, issued, networkTools, networkEvents>>

\* storage.createNetworkEvent(event)
CallCreateNetworkEvent(event) ==
  /\ \E id \in randomUUID :
       /\ createNetworkEvent(event, id)
       /\ res' = Response("createNetworkEvent", event, 0, NewNetworkEvent(event, id, now))
  /\ UNCHANGED <<now, networkTools, toolResults>>

\* storage.updateNetworkEvent(id, patch): undefined for an id that is not stored.
CallUpdateNetworkEvent(id, patch) ==
  /\ IF MapHas(networkEvents, id)
     THEN /\ updateNetworkEvent(id, patch)
          /\ res' = Response("updateNetworkEvent", [id |-> id, patch |-> patch], 0,
                             MapGet(networkEvents', id))
     ELSE /\ res' = Response("updateNetworkEvent", [id |-> id, patch |-> patch], 0,
                             Undefined)
          /\ UNCHANGED networkEvents
  /\ UNCHANGED <<now, issued, networkTools, toolResults>>

\* storage.createNetworkTool(tool)
CallCreateNetworkTool(tool) ==
  /\ \E id \in randomUUID :
       /\ createNetworkTool(tool, id)
       /\ res' = Response("createNetworkTool", tool, 0, NewNetworkTool(tool, id, now))
  /\ UNCHANGED <<now, toolResults, networkEvents>>

\* storage.updateNetworkTool(id, patch): undefined for an id that is not stored.
CallUpdateNetworkTool(id, patch) ==
  /\ IF MapHas(networkTools, id)
     THEN /\ updateNetworkTool(id, patch)
          /\ res' = Response("updateNetworkTool", [id |-> id], 0,
                             Spread(MapGet(networkTools, id), patch))
     ELSE /\ res' = Response("updateNetworkTool", [id |-> id], 0, Undefined)
          /\ UNCHANGED networkTools
  /\ UNCHANGED <<now, issued, toolResults, networkEvents>>

\* ---------------------------------------------------------- rate limiter

\* windowMs = 60 * 1000 and maxReq = 60 in the source, scaled down to the clock
\* and the number of requests the model follows.
windowMs == 2

maxReq == 2

\* The clock of the limiter's runs stops here, and the limiter sees at most
\* MaxHits requests.
MaxClock == 3

MaxHits == 5

\* The client IPs: the first entry of x-forwarded-for, else the remote address.
Ips == {"10.0.0.1", "10.0.0.2"}

LimiterInit ==
  /\ ipToHits = [ip \in {} |-> [count |-> 0, windowStart |-> 0]]
  /\ passed = <<>>

\* The middleware, a request answered 429 leaving the count as it was.
RateLimitRejectedUncounted(ip) ==
  /\ Len(passed) < MaxHits
  /\ LET found == IF ip \in DOMAIN ipToHits THEN ipToHits[ip]
                   ELSE [count |-> 0, windowStart |-> now]
         bucket == IF now - found.windowStart > windowMs
                   THEN [count |-> 0, windowStart |-> now]
                   ELSE found
         counted == [bucket EXCEPT !.count = @ + 1]
     IN  /\ ipToHits' = [i \in DOMAIN ipToHits \cup {ip} |->
                           IF i # ip THEN ipToHits[i]
                           ELSE IF counted.count > maxReq THEN bucket ELSE counted]
         /\ passed' = Append(passed,
                             [ip |-> ip, time |-> now,
                              outcome |-> IF counted.count > maxReq THEN "429" ELSE "next"])
  /\ UNCHANGED <<now, issued, networkTools, toolResults, networkEvents, res>>
  /\ UNCHANGED <<toolVars, clientVars>>

\* The middleware: the bucket of the IP is found or made, restarted when more
\* than windowMs have passed since its windowStart, counted up and stored; the
\* request gets 429 when the count exceeds maxReq, else it goes on to the routes.
RateLimit(ip) ==
  /\ Len(passed) < MaxHits
  /\ LET found == IF ip \in DOMAIN ipToHits THEN ipToHits[ip]
                   ELSE [count |-> 0, windowStart |-> now]
         bucket == IF now - found.windowStart > windowMs
                   THEN [count |-> 0, windowStart |-> now]
                   ELSE found
         counted == [bucket EXCEPT !.count = @ + 1]
     IN  /\ ipToHits' = [i \in DOMAIN ipToHits \cup {ip} |->
                           IF i = ip THEN counted ELSE ipToHits[i]]
         /\ passed' = Append(passed,
                             [ip |-> ip, time |-> now,
                              outcome |-> IF counted.count > maxReq THEN "429" ELSE "next"])
  /\ UNCHANGED <<now, issued, networkTools, toolResults, networkEvents, res>>
  /\ UNCHANGED <<toolVars, clientVars>>

\* Date.now() advances between two requests.
ClockAdvances ==
  /\ now < MaxClock
  /\ now' = now + 1
  /\ UNCHANGED <<issued, networkTools, toolResults, networkEvents, res>>
  /\ UNCHANGED <<toolVars, limiterVars, clientVars>>

\* ------------------------------------------------- client: networkUtils

\* The prefix lengths of IPv4.
PrefixLengths == 0..32

\* Dotted masks typed in by hand, one of them with a gap in its one bits.
MaskTexts ==
  {<<"2", "5", "5", ".", "0", ".", "2", "5", "5", ".", "0">>,
   <<"2", "5", "5", ".", "2", "5", "5", ".", "1", "2", "8", ".", "0">>}

\* Nothing has been converted.
NoConversion == [cidr |-> Undefined, mask |-> Undefined, back |-> Undefined]

\* A 32-bit number is the function from its bit positions 0..31, bit 0 the
\* lowest, to its bits. 0xFFFFFFFF:
AllOnes == [i \in 0..31 |-> 1]

\* x << n: the shift count is taken modulo 32 and the bits shifted past bit 31
\* are lost; (>>> 0 reads the same 32 bits as unsigned).
ShiftLeft32(x, n) ==
  LET k == n % 32
  IN  [i \in 0..31 |-> IF i >= k THEN x[i - k] ELSE 0]

\* (x >>> n) & 0xFF
ByteFrom(x, n) ==
  x[n] + 2 * x[n + 1] + 4 * x[n + 2] + 8 * x[n + 3] + 16 * x[n + 4]
  + 32 * x[n + 5] + 64 * x[n + 6] + 128 * x[n + 7]

\* calculateSubnetMask(cidr): (0xFFFFFFFF << (32 - cidr)) >>> 0, its four
\* bytes joined by dots.
calculateSubnetMask(cidr) ==
  LET mask == ShiftLeft32(AllOnes, 32 - cidr)
  IN  Join(<<IntToChars(ByteFrom(mask, 24)),
             IntToChars(ByteFrom(mask, 16)),
             IntToChars(ByteFrom(mask, 8)),
             IntToChars(ByteFrom(mask, 0))>>, ".")

cidrToMask(cidr) == calculateSubnetMask(cidr)

\* (part >> i) & 1 for a part parseInt returned; NaN shifts as 0.
Bit(part, i) == IF part.t = "number" THEN (part.n \div Pow2(i)) % 2 ELSE 0

\* The two loops of maskToCidr from bit i of parts[k] on: one is counted for
\* every set bit, and the first clear bit returns.
RECURSIVE CountOnes(_, _, _)
CountOnes(parts, k, i) ==
  IF k > Len(parts) THEN 0
  ELSE IF Bit(parts[k], i) = 0 THEN 0
  ELSE IF i = 0 THEN 1 + CountOnes(parts, k + 1, 7)
  ELSE 1 + CountOnes(parts, k, i - 1)

\* maskToCidr(mask)
maskToCidr(mask) ==
  LET fields == Split(mask, ".")
      parts == [k \in 1..Len(fields) |-> parseInt(fields[k])]
  IN  CountOnes(parts, 1, 7)

\* cidrToMask is applied to the prefix length.
CidrToMask ==
  /\ conv.cidr # Undefined
  /\ conv.mask = Undefined
  /\ conv' = [conv EXCEPT !.mask = Chars(cidrToMask(conv.cidr.n))]
  /\ UNCHANGED <<clock, isMonitoring, monitoringDuration, bandwidthData,
                 intervalRef, startTimeRef, timers>>
  /\ UNCHANGED <<storeVars, toolVars, limiterVars>>

\* maskToCidr is applied to the mask.
MaskToCidr ==
  /\ conv.mask # Undefined
  /\ conv.back = Undefined
  /\ conv' = [conv EXCEPT !.back = Num(maskToCidr(conv.mask.c))]
  /\ UNCHANGED <<clock, isMonitoring, monitoringDuration, bandwidthData,
                 intervalRef, startTimeRef, timers>>
  /\ UNCHANGED <<storeVars, toolVars, limiterVars>>

\* -------------------------------------------- client: BandwidthMonitor

\* updated.slice(-100): the data points the page keeps.
MaxDataPoints == 100

\* The period of the interval timer, in milliseconds.
TimerPeriod == 1000

\* The durations, in seconds, the model selects: the initial 60 and the 300
\* of the select's options.
DurationInputs == {60, 300}

\* The time the browser stays open, in milliseconds.
MaxUptime == 300000

\* Array.prototype.slice(-n)
SliceLast(s, n) == IF Len(s) <= n THEN s ELSE SubSeq(s, Len(s) - n + 1, Len(s))

\* After the first render: nothing is monitored and no timer is set.
MonitorInit ==
  /\ clock = 0
  /\ isMonitoring = FALSE
  /\ monitoringDuration = 60
  /\ bandwidthData = <<>>
  /\ intervalRef = Null
  /\ startTimeRef = 0
  /\ timers = {}

\* The id setInterval returns: the least positive one no live timer has.
NextTimerId == CHOOSE id \in 1..(Cardinality(timers) + 1) :
                 /\ \A t \in timers : t.id # id
                 /\ \A j \in 1..(id - 1) : \E t \in timers : t.id = j

\* stopMonitoring, without the interval it clears.
stopMonitoringKeepsInterval ==
  /\ isMonitoring' = FALSE
  /\ intervalRef' = Null
  /\ timers' = timers

\* stopMonitoring: isMonitoring becomes false and the interval of intervalRef,
\* if there is one, is cleared.
stopMonitoring ==
  /\ isMonitoring' = FALSE
  /\ intervalRef' = Null
  /\ timers' = IF intervalRef # Null
               THEN {t \in timers : t.id # intervalRef.n}
               ELSE timers

\* The duration select, disabled while monitoring.
SelectDuration(value) ==
  /\ ~isMonitoring
  /\ monitoringDuration' = value
  /\ UNCHANGED <<conv, clock, isMonitoring, bandwidthData, intervalRef,
                 startTimeRef, timers>>
  /\ UNCHANGED <<storeVars, toolVars, limiterVars>>

\* startMonitoring, the button's handler while isMonitoring is false: the data
\* is emptied, the start time taken and an interval set whose callback keeps
\* the monitoringDuration of this render.
startMonitoring ==
  /\ ~isMonitoring
  /\ clock + monitoringDuration * 1000 <= MaxUptime
  /\ isMonitoring' = TRUE
  /\ bandwidthData' = <<>>
  /\ startTimeRef' = clock
  /\ intervalRef' = Num(NextTimerId)
  /\ timers' = timers \cup {[id |-> NextTimerId, duration |-> monitoringDuration]}
  /\ UNCHANGED <<conv, clock, monitoringDuration>>
  /\ UNCHANGED <<storeVars, toolVars, limiterVars>>

\* The button's handler while isMonitoring is true.
ClickStop ==
  /\ isMonitoring
  /\ stopMonitoring
  /\ UNCHANGED <<conv, clock, monitoringDuration, bandwidthData, startTimeRef>>
  /\ UNCHANGED <<storeVars, toolVars, limiterVars>>

\* resetMonitoring, its button disabled while monitoring.
resetMonitoring ==
  /\ ~isMonitoring
  /\ stopMonitoring
  /\ bandwidthData' = <<>>
  /\ UNCHANGED <<conv, clock, monitoringDuration, startTimeRef>>
  /\ UNCHANGED <<storeVars, toolVars, limiterVars>>

\* The callback of a live interval, one period after the last tick: a data point
\* of this moment is appended and the last 100 kept; once the elapsed seconds
\* reach the duration of the callback, stopMonitoring is called. The random
\* download and upload figures of the point are not carried.
IntervalFires(timer) ==
  /\ timer \in timers
  /\ clock + TimerPeriod <= MaxUptime
  /\ clock' = clock + TimerPeriod
  /\ bandwidthData' = SliceLast(Append(bandwidthData, [timestamp |-> clock']),
                                MaxDataPoints)
  /\ IF (clock' - startTimeRef) >= timer.duration * 1000
     THEN stopMonitoring
     ELSE UNCHANGED <<isMonitoring, intervalRef, timers>>
  /\ UNCHANGED <<conv, monitoringDuration, startTimeRef>>
  /\ UNCHANGED <<storeVars, toolVars, limiterVars>>

ClientInit == conv = NoConversion /\ MonitorInit

\* -------------------------------------------------------- specifications

\* After construction: the seeded store, no request in flight, no bucket, and
\* in the browser nothing converted and nothing monitored.
Init == StoreInit /\ ToolInit /\ LimiterInit /\ ClientInit

\* The store routes of the HTTP server.
Next ==
  \/ Tick /\ UNCHANGED <<toolVars, limiterVars, clientVars>>
  \/ GetTools /\ UNCHANGED <<toolVars, limiterVars, clientVars>>
  \/ \E id \in IdInputs : GetToolById(id) /\ UNCHANGED <<toolVars, limiterVars, clientVars>>
  \/ \E toolName \in ToolNameQueries, limit \in LimitQueries :
       GetResults(toolName, limit) /\ UNCHANGED <<toolVars, limiterVars, clientVars>>
  \/ \E body \in ResultBodies : PostResults(body) /\ UNCHANGED <<toolVars, limiterVars, clientVars>>
  \/ \E id \in IdInputs : GetResultById(id) /\ UNCHANGED <<toolVars, limiterVars, clientVars>>
  \/ \E id \in IdInputs : DeleteResult(id) /\ UNCHANGED <<toolVars, limiterVars, clientVars>>
  \/ \E limit \in LimitQueries : GetEvents(limit) /\ UNCHANGED <<toolVars, limiterVars, clientVars>>
  \/ \E body \in EventBodies : PostEvents(body) /\ UNCHANGED <<toolVars, limiterVars, clientVars>>

Spec == Init /\ [][Next]_vars

\* The calls on the storage object.
NextStorage ==
  \/ Tick /\ UNCHANGED <<toolVars, limiterVars, clientVars>>
  \/ \E result \in ResultInserts : CallCreateToolResult(result) /\ UNCHANGED <<toolVars, limiterVars, clientVars>>
  \/ \E id \in IdInputs : CallGetToolResult(id) /\ UNCHANGED <<toolVars, limiterVars, clientVars>>
  \/ CallGetToolResults(Undefined) /\ UNCHANGED <<toolVars, limiterVars, clientVars>>
  \/ \E id \in IdInputs : CallDeleteToolResult(id) /\ UNCHANGED <<toolVars, limiterVars, clientVars>>
  \/ \E event \in EventInserts : CallCreateNetworkEvent(event) /\ UNCHANGED <<toolVars, limiterVars, clientVars>>
  \/ \E id \in UpdateIds, patch \in EventPatches :
       CallUpdateNetworkEvent(id, patch) /\ UNCHANGED <<toolVars, limiterVars, clientVars>>
  \/ \E tool \in ToolInserts : CallCreateNetworkTool(tool) /\ UNCHANGED <<toolVars, limiterVars, clientVars>>
  \/ \E id \in UpdateIds, patch \in ToolPatches :
       CallUpdateNetworkTool(id, patch) /\ UNCHANGED <<toolVars, limiterVars, clientVars>>

SpecStorage == Init /\ [][NextStorage]_vars

\* The request bodies of the tool handlers.
PingBodies ==
  {[host |-> host, count |-> count, timeout |-> Undefined] :
     host \in HostInputs, count \in CountInputs}

PortScanBodies ==
  {[host |-> host, startPort |-> Num(range[1]), endPort |-> Num(range[2])] :
     host \in {Undefined, Chars(<<"a", ".", "b">>)}, range \in PortRanges}

DnsBodies ==
  {[domain |-> domain, recordType |-> recordType] :
     domain \in HostInputs, recordType \in RecordTypeInputs}

WhoisBodies == {[domain |-> domain] : domain \in HostInputs}

SslBodies == {[url |-> url, port |-> port] : url \in UrlInputs, port \in SslPortInputs}

SubnetBodies ==
  {[ipAddress |-> ipAddress, subnetMask |-> subnetMask, subnetCount |-> subnetCount] :
     ipAddress \in IpInputs, subnetMask \in MaskInputs, subnetCount \in SubnetCountInputs}

\* One tool request, from its arrival to its response.
NextTools ==
  \/ Tick /\ UNCHANGED <<toolVars, limiterVars, clientVars>>
  \/ \E variant \in Variants, body \in PingBodies : PingReceive(1, variant, body)
  \/ MockPingTimer(1)
  \/ \E stdout \in PingOutputs : PingExecReturns(1, stdout)
  \/ PingExecFails(1)
  \/ \E ok \in BOOLEAN : PingProbeSettles(1, ok)
  \/ \E variant \in Variants, body \in PortScanBodies : PortScanReceive(1, variant, body)
  \/ \E p \in DOMAIN local[1].sock : SocketConnect(1, p)
  \/ \E p \in DOMAIN local[1].sock : SocketError(1, p)
  \/ \E p \in DOMAIN local[1].sock : SocketTimeout(1, p)
  \/ ScanContinue(1)
  \/ \E variant \in Variants, body \in DnsBodies : DnsReceive(1, variant, body)
  \/ DnsResolves(1)
  \/ DnsRejects(1)
  \/ \E variant \in Variants, body \in WhoisBodies : WhoisReceive(1, variant, body)
  \/ WhoisResolves(1)
  \/ WhoisRejects(1)
  \/ \E variant \in Variants, body \in SslBodies : SslReceive(1, variant, body)
  \/ \E valid \in BOOLEAN : SslResolves(1, valid)
  \/ SslRejects(1)
  \/ \E variant \in Variants, body \in SubnetBodies : SubnetReceive(1, variant, body)
  \/ \E variant \in Variants : SpeedTestReceive(1, variant)
  \/ \E variant \in Variants, option \in ScanOptionInputs : VulnScanReceive(1, variant, option)

SpecTools == Init /\ [][NextTools]_vars

\* The port-scan requests of the interleaved runs: the ranges of the two
\* requests have a port in common.
ConcurrentScanBody(r) ==
  [host |-> Chars(<<"a", ".", "b">>), startPort |-> Num(r), endPort |-> Num(r + 1)]

\* The handlers of the interleaved runs: the first request goes to attachRoutes,
\* the second to either.
ConcurrentVariants(r) == IF r = 1 THEN {"attach"} ELSE {"attach", "register"}

\* Two port-scan requests and DELETE /api/results/:id requests, interleaved at
\* the awaits of the scans.  A continuation of an await on a settled promise
\* (storage.createToolResult, storage.deleteToolResult) is a microtask, which
\* runs before the callback of any other request: those stay within one step.
NextConcurrent ==
  \/ \E r \in Reqs : \E variant \in ConcurrentVariants(r) :
       PortScanReceive(r, variant, ConcurrentScanBody(r))
  \/ \E r \in Reqs : \E p \in DOMAIN local[r].sock : SocketConnect(r, p)
  \/ \E r \in Reqs : \E p \in DOMAIN local[r].sock : SocketError(r, p)
  \/ \E r \in Reqs : \E p \in DOMAIN local[r].sock : SocketTimeout(r, p)
  \/ \E r \in Reqs : ScanContinue(r)
  \/ \E id \in UUIDs \ SeedIds : DeleteResult(id) /\ UNCHANGED <<toolVars, limiterVars, clientVars>>

SpecConcurrent == Init /\ [][NextConcurrent]_vars

\* The HTTP requests that write to the store or read the catalog: result create
\* and delete, event create, tool runs of every variant (the speed test, and the
\* DNS lookup with its await) and GET /api/tools.
NextHttp ==
  \/ GetTools /\ UNCHANGED <<toolVars, limiterVars, clientVars>>
  \/ \E body \in ResultInserts : PostResults(body) /\ UNCHANGED <<toolVars, limiterVars, clientVars>>
  \/ \E id \in UUIDs \ SeedIds : DeleteResult(id) /\ UNCHANGED <<toolVars, limiterVars, clientVars>>
  \/ \E body \in EventInserts : PostEvents(body) /\ UNCHANGED <<toolVars, limiterVars, clientVars>>
  \/ \E variant \in Variants : SpeedTestReceive(1, variant)
  \/ \E variant \in Variants :
       DnsReceive(2, variant, [domain |-> Chars(<<"a", ".", "b">>), recordType |-> Undefined])
  \/ DnsResolves(2)
  \/ DnsRejects(2)

SpecHttp == Init /\ [][NextHttp]_vars

\* One port-scan request, from its arrival to its response.
NextScan ==
  \/ \E variant \in Variants, body \in PortScanBodies : PortScanReceive(1, variant, body)
  \/ \E p \in DOMAIN local[1].sock : SocketConnect(1, p)
  \/ \E p \in DOMAIN local[1].sock : SocketError(1, p)
  \/ \E p \in DOMAIN local[1].sock : SocketTimeout(1, p)
  \/ ScanContinue(1)

\* The event loop runs the callback of an armed timer once its 750 ms have
\* passed, and the continuation of a settled Promise.all; whether a socket emits
\* connect or error is up to the network.
SpecScanFair ==
  /\ Init
  /\ [][NextScan]_vars
  /\ WF_vars(\E p \in DOMAIN local[1].sock : SocketTimeout(1, p))
  /\ WF_vars(ScanContinue(1))

\* The requests arriving at the rate limiter, and the clock.
NextLimiter ==
  \/ ClockAdvances
  \/ \E ip \in Ips : RateLimit(ip)

SpecLimiter == Init /\ [][NextLimiter]_vars

\* The conversions of networkUtils, applied to every prefix length and to the
\* masks typed in by hand.
InitMask ==
  /\ StoreInit /\ ToolInit /\ LimiterInit /\ MonitorInit
  /\ conv \in {[NoConversion EXCEPT !.cidr = Num(c)] : c \in PrefixLengths}
            \cup {[NoConversion EXCEPT !.mask = Chars(m)] : m \in MaskTexts}

NextMask ==
  \/ CidrToMask
  \/ MaskToCidr

SpecMask == InitMask /\ [][NextMask]_vars

\* The bandwidth monitor page: its buttons, its select and its interval.
NextMonitor ==
  \/ \E value \in DurationInputs : SelectDuration(value)
  \/ startMonitoring
  \/ ClickStop
  \/ resetMonitoring
  \/ \E timer \in timers : IntervalFires(timer)

SpecMonitor == Init /\ [][NextMonitor]_vars

\* The browser runs the callback of a live interval.
SpecMonitorFair ==
  /\ Init
  /\ [][NextMonitor]_vars
  /\ WF_vars(\E timer \in timers : IntervalFires(timer))

\* ------------------------------------------------------------ properties

InSeq(x, s) == \E k \in 1..Len(s) : s[k] = x

Min(a, b) == IF a < b THEN a ELSE b

\* The L most recently created records of a Map, the newest first.
NewestFirst(m, L) == [k \in 1..Min(Len(m), L) |-> m[Len(m) - k + 1]]

\* C1: GET /api/results with a limit L >= 1 answers the min(N, L) most recently
\* created of the N stored results, the newest first, also when several results
\* were created in the same millisecond.
C1_ListingNewestFirst ==
  (/\ res.route = "GET /api/results"
   /\ ~Truthy(res.req.toolName)
   /\ Truthy(res.req.limit)
   /\ LimitArg(res.req.limit).n >= 1)
  => res.body = Arr(NewestFirst(toolResults, LimitArg(res.req.limit).n))

\* The ports a stored port-scan result reports as open.
OpenPortsOf(result) ==
  {result.results.o.openPorts[j].port : j \in 1..Len(result.results.o.openPorts)}

\* C2: every port a stored port-scan result reports as open lies between the
\* startPort and the endPort of the request, in the handlers that open sockets
\* and in the simulated one.
C2_OpenPortsInRange ==
  \A k \in 1..Len(toolResults) :
    toolResults[k].toolName = Str("port-scan") =>
      \A port \in OpenPortsOf(toolResults[k]) :
        /\ toolResults[k].parameters.o.startPort.n <= port
        /\ port <= toolResults[k].parameters.o.endPort.n

\* A socket scan of two ports has stored both as open.
C2_Witness ==
  /\ req[1].tool = "port-scan"
  /\ req[1].variant = "register"
  /\ \E k \in 1..Len(toolResults) :
       /\ toolResults[k].toolName = Str("port-scan")
       /\ Cardinality(OpenPortsOf(toolResults[k])) = 2

\* C3: a port is among the open ports only if its connect listener ran before
\* the socket's timer fired and before its error listener ran; a port whose
\* attempt ended by timeout or error is never recorded, whatever the order of the
\* connect, error and timeout callbacks, a late connect included.
C3_OpenOnlyByConnect ==
  \A r \in Reqs :
    (req[r].tool = "port-scan" /\ req[r].variant # "mock") =>
      \A p \in DOMAIN local[r].sock :
        local[r].sock[p].outcome # "connect" =>
          /\ ~InSeq(p, local[r].openPorts)
          /\ \A k \in 1..Len(toolResults) :
               toolResults[k].toolName = Str("port-scan") =>
                 p \notin OpenPortsOf(toolResults[k])

\* A scan is stored in which one port timed out or failed, its connect listener
\* ran afterwards, and another port is reported open.
C3_Witness ==
  /\ req[1].tool = "port-scan"
  /\ pc[1] = "done"
  /\ resp[1].status = 200
  /\ \E p \in DOMAIN local[1].sock :
       /\ local[1].sock[p].outcome \in {"timeout", "error"}
       /\ local[1].sock[p].late
  /\ local[1].openPorts # <<>>

\* validateDomain(host) || validateIPAddress(host), for a host of any type.
ValidHost(host) ==
  /\ host.t = "chars"
  /\ (validateDomain(host.c) \/ validateIPAddress(host.c))

\* The host, domain or port of a request is not valid.
InvalidTarget(rq) ==
  CASE rq.tool = "ping" -> ~ValidHost(rq.body.host)
    [] rq.tool = "port-scan" ->
         \/ ~ValidHost(rq.body.host)
         \/ ~validatePort(rq.body.startPort.n)
         \/ ~validatePort(rq.body.endPort.n)
    [] rq.tool \in {"dns-lookup", "whois-lookup"} -> ~ValidHost(rq.body.domain)
    [] rq.tool = "ssl-analyze" ->
         \/ ~IsURL(rq.body.url)
         \/ ~validatePort(Default(rq.body.port, Num(443)).n)
    [] OTHER -> FALSE

\* C4: a ping, port-scan, dns-lookup, whois-lookup or ssl-analyze request whose
\* host or domain is no valid domain or IP address, or whose port is outside
\* 1..65535, starts no subprocess, socket, resolver or TLS call and is answered
\* with 400.
C4_InvalidInputRejected ==
  \A r \in Reqs :
    InvalidTarget(req[r]) =>
      /\ calls[r] = <<>>
      /\ pc[r] = "done" => resp[r].status = 400

\* The number an address ends with: the last field of `a.b.c.n` or `a.b.c.n/m`.
AddrValue(addr) ==
  LET fields == Split(addr, ".")
  IN  parseInt(Split(fields[Len(fields)], "/")[1]).n

\* C5: in every computed subnet lastHost = broadcast - 1, firstHost = network + 1,
\* hostCount = subnetSize - 2 with subnetSize the number of addresses from network
\* to broadcast, and hostCount is the number of addresses from firstHost to
\* lastHost, so never negative.
C5_SubnetConsistent ==
  \A k \in 1..Len(toolResults) :
    toolResults[k].toolName = Str("subnet-calculate") =>
      \A j \in 1..Len(toolResults[k].results.o.subnets) :
        LET s == toolResults[k].results.o.subnets[j]
            subnetSize == AddrValue(s.broadcast) - AddrValue(s.network) + 1
        IN  /\ AddrValue(s.lastHost) = AddrValue(s.broadcast) - 1
            /\ AddrValue(s.firstHost) = AddrValue(s.network) + 1
            /\ s.hostCount = subnetSize - 2
            /\ s.hostCount = Cardinality(AddrValue(s.firstHost)..AddrValue(s.lastHost))
            /\ s.hostCount >= 0

\* C6: the ranges network..broadcast of two subnets of one result are disjoint,
\* and no subnet's firstHost or lastHost lies in the range of another.
C6_SubnetsDisjoint ==
  \A k \in 1..Len(toolResults) :
    toolResults[k].toolName = Str("subnet-calculate") =>
      LET subnets == toolResults[k].results.o.subnets
          Range(s) == AddrValue(s.network)..AddrValue(s.broadcast)
      IN  \A i, j \in 1..Len(subnets) :
            i # j =>
              /\ Range(subnets[i]) \cap Range(subnets[j]) = {}
              /\ AddrValue(subnets[i].firstHost) \notin Range(subnets[j])
              /\ AddrValue(subnets[i].lastHost) \notin Range(subnets[j])

\* The serverless ping handler, whose inner catch replaces a failed ping
\* subprocess by TCP probes.
HasFallback(rq) == rq.variant = "attach" /\ rq.tool = "ping"

\* C7 as stated: in every tool handler, once the external call or a statement
\* has thrown, the response is 500 and no result is stored.
C7_FailureDiscards ==
  \A r \in Reqs :
    (threw[r] /\ pc[r] = "done") =>
      /\ resp[r].status = 500
      /\ toolResults = <<>>

\* C7, amended: once the external call or a statement of a handler has thrown,
\* the response is 500 and no result is stored, except in the serverless ping
\* handler, which answers a failed ping subprocess with 200 and one stored
\* result; every stored result has the status completed.
C7_FailureDiscardsButFallback ==
  /\ \A r \in Reqs :
       (threw[r] /\ pc[r] = "done") =>
         IF HasFallback(req[r])
         THEN /\ resp[r].status = 200
              /\ toolResults = <<resp[r].body>>
         ELSE /\ resp[r].status = 500
              /\ toolResults = <<>>
              /\ issued = SeedIds
  /\ \A k \in 1..Len(toolResults) : toolResults[k].status = Str("completed")

\* The TLS call of an ssl-analyze request was started and failed: 500.
C7_Witness ==
  /\ req[1].tool = "ssl-analyze"
  /\ calls[1] = <<"tls.connect">>
  /\ threw[1]
  /\ resp[1].status = 500

\* One step of POST /api/results or POST /api/events.
C8_Step ==
  /\ (res' # res /\ res'.route = "POST /api/results") =>
       /\ networkEvents' = networkEvents
       /\ IF ValidInsertToolResult(res'.req)
          THEN /\ res'.status = 201
               /\ toolResults' = Append(toolResults, res'.body)
          ELSE /\ res'.status = 400
               /\ toolResults' = toolResults
  /\ (res' # res /\ res'.route = "POST /api/events") =>
       /\ toolResults' = toolResults
       /\ IF ValidInsertNetworkEvent(res'.req)
          THEN /\ res'.status = 201
               /\ networkEvents' = Append(networkEvents, res'.body)
          ELSE /\ res'.status = 400
               /\ networkEvents' = networkEvents

\* C8: a POST to /api/results or /api/events whose body fails the insert schema
\* is answered 400 and changes neither the result map nor the event map; a body
\* that passes is answered 201 and adds exactly one record.
C8_SchemaValidation == [][C8_Step]_vars

\* A rejected POST /api/events after a result was stored.
C8_Witness ==
  /\ res.route = "POST /api/events"
  /\ res.status = 400
  /\ Len(toolResults) = 1

\* One call on the store, seen from the stored results.
C9_Step ==
  \A i \in MapKeys(toolResults) :
    IF MapHas(toolResults', i)
    THEN MapGet(toolResults', i) = MapGet(toolResults, i)
    ELSE res'.route = "deleteToolResult" /\ res'.req.id = i

\* C9: a stored result keeps its toolName, parameters, results, status,
\* executionTime and createdAt through every call on the store, until
\* deleteToolResult of its id removes it.
C9_ResultImmutable == [][C9_Step]_vars

\* getToolResult returns a result created a millisecond ago, after another
\* result was created and deleted.
C9_Witness ==
  /\ res.route = "getToolResult"
  /\ MapHas(toolResults, res.req.id)
  /\ res.body = MapGet(toolResults, res.req.id)
  /\ res.body.createdAt < now
  /\ Len(toolResults) = 1
  /\ Cardinality(issued \ SeedIds) = 2

\* The ids stored in the three Maps.
StoredIds == MapKeys(toolResults) \cup MapKeys(networkEvents) \cup MapKeys(networkTools)

\* One call on the store, seen from the ids.
C10_Step ==
  /\ issued \subseteq issued'
  /\ (StoredIds' \ StoredIds) \cap issued = {}
  /\ Len(toolResults') > Len(toolResults) => toolResults' = Append(toolResults, res'.body)
  /\ Len(networkEvents') > Len(networkEvents) => networkEvents' = Append(networkEvents, res'.body)
  /\ Len(networkTools') > Len(networkTools) => networkTools' = Append(networkTools, res'.body)
  /\ (res' # res /\ res'.route \in {"createToolResult", "createNetworkEvent", "createNetworkTool"})
       => /\ Cardinality(StoredIds') = Cardinality(StoredIds) + 1
          /\ Cardinality(issued') = Cardinality(issued) + 1

\* C10: the id of a newly created result, event or tool differs from every id
\* issued before, those of deleted records included, so a create adds a record
\* and overwrites none.
C10_IdsNeverReused == [][C10_Step]_vars

\* A result was created after an earlier one was deleted.
C10_Witness ==
  /\ res.route = "createToolResult"
  /\ Cardinality(issued \ SeedIds) = 2
  /\ MapKeys(toolResults) = {res.body.id}
  /\ MapKeys(networkEvents) \cup MapKeys(networkTools) = SeedIds

\* The sockets of a scan whose attempt has started and has not resolved.
InFlight(r) ==
  {p \in DOMAIN local[r].sock : local[r].sock[p].started /\ ~local[r].sock[p].done}

\* The number (0-based) of the batch a port of the scan of request r belongs to.
BatchOf(r, p) ==
  (p - req[r].body.startPort.n) \div concurrency(req[r].variant)

\* C11: during a scan at most `concurrency` attempts are started and unresolved,
\* and no socket of a batch is opened before every attempt of the batches before
\* it has resolved.
C11_BoundedBatches ==
  \A r \in Reqs :
    (req[r].tool = "port-scan" /\ req[r].variant # "mock") =>
      /\ Cardinality(InFlight(r)) <= concurrency(req[r].variant)
      /\ \A p, q \in DOMAIN local[r].sock :
           (local[r].sock[q].started /\ BatchOf(r, p) < BatchOf(r, q))
             => local[r].sock[p].done

\* A scan is in its second batch, with an attempt unresolved.
C11_Witness ==
  /\ req[1].tool = "port-scan"
  /\ pc[1] = "scan"
  /\ local[1].i > 0
  /\ InFlight(1) # {}

\* A port range no port-scan handler may scan: outside 1..65535, reversed, or
\* wider than the cap.
RangeOutOfBounds(body) ==
  \/ body.startPort.n < 1
  \/ body.endPort.n > 65535
  \/ body.startPort.n > body.endPort.n
  \/ body.endPort.n - body.startPort.n + 1 > maxRange

\* C12: a port-scan request whose range is outside 1..65535, reversed or wider
\* than the cap is answered with 400, opens no socket and stores no result, in
\* every port-scan handler.
C12_RangeRejected ==
  \A r \in Reqs :
    (req[r].tool = "port-scan" /\ RangeOutOfBounds(req[r].body)) =>
      /\ calls[r] = <<>>
      /\ pc[r] = "done" => resp[r].status = 400
      /\ toolResults = <<>>

\* The stored results of the ping handlers.
PingResults ==
  {toolResults[k] : k \in {k \in 1..Len(toolResults) : toolResults[k].toolName = Str("ping")}}

Answered200(r) == pc[r] # "done" /\ pc'[r] = "done" /\ resp'[r].status = 200

\* In this step a DELETE /api/results/:id is answered 204.
Answered204 ==
  /\ res'.route = "DELETE /api/results/:id"
  /\ res'.status = 204
  /\ UNCHANGED toolVars
  /\ res' # res \/ toolResults' # toolResults

\* The ports whose connect listener settled an attempt of request r.
ConnectedPorts(r) ==
  {p \in DOMAIN local[r].sock : local[r].sock[p].outcome = "connect"}

\* One step of the interleaved runs, seen from the result store.
C14_Step ==
  /\ \A r \in Reqs :
       Answered200(r) =>
         /\ toolResults' = Append(toolResults, resp'[r].body)
         /\ resp'[r].body.id \notin StoredIds
         /\ OpenPortsOf(resp'[r].body) \subseteq ConnectedPorts(r)
  /\ Len(toolResults') =
       Len(toolResults) + Cardinality({r \in Reqs : Answered200(r)})
         - (IF Answered204 THEN 1 ELSE 0)

\* C14: in every interleaving of port-scan requests and result deletes, a
\* request answered 200 has added exactly one result, the one it returns, under
\* an id not stored before; the number of stored results changes by the creates
\* answered 200 minus the deletes answered 204 of the step, so it equals
\* successful creates minus successful deletes; and the open ports a port-scan
\* stores are ports its own sockets connected to.
C14_NoLostOrMixedUpdates == [][C14_Step]_vars

\* While the first scan is under way with port 2 found open, the second scan,
\* which found port 2 closed, has been answered and its result deleted.
C14_Witness ==
  /\ pc[1] = "scan"
  /\ InSeq(2, local[1].openPorts)
  /\ pc[2] = "done"
  /\ resp[2].status = 200
  /\ OpenPortsOf(resp[2].body) = {3}
  /\ res.status = 204
  /\ toolResults = <<>>

\* C15: every stored ToolResult has the status running, completed or error,
\* whether a tool endpoint or POST /api/results created it.
C15_StatusDomain ==
  \A k \in 1..Len(toolResults) :
    toolResults[k].status \in {Str("running"), Str("completed"), Str("error")}

\* The requests of an IP the limiter let through at a time from t up to, not
\* including, t + windowMs.
AdmittedWithin(ip, t) ==
  {k \in 1..Len(passed) :
     /\ passed[k].ip = ip
     /\ passed[k].outcome = "next"
     /\ t <= passed[k].time
     /\ passed[k].time < t + windowMs}

\* C16: for each client IP at most maxReq requests are let through to the route
\* handlers within any period of windowMs.
C16_SlidingLimit ==
  \A ip \in Ips : \A t \in 0..MaxClock :
    Cardinality(AdmittedWithin(ip, t)) <= maxReq

\* C17: the store holds exactly the 10 seeded tools, unchanged, whatever HTTP
\* requests were served (tool runs, result creates and deletes, event creates),
\* and GET /api/tools returns them.
C17_StaticCatalog ==
  /\ Len(networkTools) = 10
  /\ networkTools = initializeDefaultTools
  /\ res.route = "GET /api/tools" => res.body = Arr(initializeDefaultTools)

\* GET /api/tools is answered after a tool run has stored a result, an event was
\* created and a result deleted.
C17_Witness ==
  /\ res.route = "GET /api/tools"
  /\ pc[1] = "done"
  /\ resp[1].status = 200
  /\ Len(networkEvents) > Len(mockEvents)
  /\ Cardinality(issued \ SeedIds) > Len(toolResults) + (Len(networkEvents) - Len(mockEvents))

\* One step of a scan: an attempt that has resolved keeps its outcome, and a
\* response that was sent stays as it is.
C18_Step ==
  /\ \A p \in DOMAIN local[1].sock :
       local[1].sock[p].outcome # "none" =>
         /\ p \in DOMAIN local'[1].sock
         /\ local'[1].sock[p].outcome = local[1].sock[p].outcome
         /\ local'[1].sock[p].done
  /\ pc[1] = "done" => (pc'[1] = "done" /\ resp'[1] = resp[1])

\* C18: every connection attempt resolves once, by connect, error or its timer;
\* when the timer callbacks are delivered, every accepted scan reaches its
\* response with every port of every batch attempted and resolved, and the
\* response is sent once.
C18_ScanTerminates ==
  /\ [][C18_Step]_vars
  /\ (pc[1] = "scan") ~>
       (/\ pc[1] = "done"
        /\ resp[1].status = 200
        /\ \A p \in DOMAIN local[1].sock :
             local[1].sock[p].started /\ local[1].sock[p].outcome # "none")

\* A scan of two batches has been answered, every attempt resolved by its timer.
C18_Witness ==
  /\ req[1].tool = "port-scan"
  /\ req[1].variant = "attach"
  /\ pc[1] = "done"
  /\ Cardinality(DOMAIN local[1].sock) = 2
  /\ \A p \in DOMAIN local[1].sock : local[1].sock[p].outcome = "timeout"

\* The scans of the handlers that open sockets, once past the validation.
AcceptedScans ==
  {r \in Reqs : /\ req[r].tool = "port-scan"
                /\ req[r].variant # "mock"
                /\ pc[r] = "scan" \/ (pc[r] = "done" /\ resp[r].status = 200)}

\* C19: in an accepted scan no port is attempted twice and no port is recorded
\* twice as open; when the scan has answered, the ports attempted are exactly
\* startPort..endPort, totalScanned = endPort - startPort + 1, and openCount is
\* the number of open ports stored, at most totalScanned.
C19_ScanAccounting ==
  \A r \in AcceptedScans :
    LET startPort == req[r].body.startPort.n
        endPort == req[r].body.endPort.n
        attempted == {p \in DOMAIN local[r].sock : local[r].sock[p].started}
        open == local[r].openPorts
    IN  /\ Len(calls[r]) = Cardinality(attempted)
        /\ attempted \subseteq startPort..endPort
        /\ \A j, k \in 1..Len(open) : open[j] = open[k] => j = k
        /\ pc[r] = "done" =>
             LET stored == resp[r].body.results.o
             IN  /\ attempted = startPort..endPort
                 /\ stored.totalScanned = endPort - startPort + 1
                 /\ stored.openCount = Len(stored.openPorts)
                 /\ Cardinality(OpenPortsOf(resp[r].body)) = stored.openCount
                 /\ stored.openCount <= stored.totalScanned

\* A scan of two ports in two batches has answered with one port open.
C19_Witness ==
  /\ 1 \in AcceptedScans
  /\ req[1].variant = "attach"
  /\ pc[1] = "done"
  /\ Len(calls[1]) = 2
  /\ resp[1].body.results.o.openCount = 1

\* One route call, seen from DELETE /api/results/:id: a step that leaves the
\* clock alone and ends with the response of a delete is a delete.
C20_Step ==
  /\ (res'.route = "DELETE /api/results/:id" /\ now' = now) =>
       LET id == res'.req.id
       IN  /\ IF MapHas(toolResults, id)
              THEN /\ res'.status = 204
                   /\ toolResults' = SelectSeq(toolResults, LAMBDA v : v.id # id)
                   /\ Len(toolResults') = Len(toolResults) - 1
              ELSE /\ res'.status = 404
                   /\ toolResults' = toolResults
           /\ ~MapHas(toolResults', id)
           /\ UNCHANGED <<networkTools, networkEvents, issued>>
  /\ \A id \in issued \ MapKeys(toolResults) : id \notin MapKeys(toolResults')

\* C20: DELETE /api/results/:id of a stored id answers 204 and removes that
\* record and nothing else; of an id that is not stored it answers 404 and
\* changes nothing; an id that was deleted is never stored again, so a second
\* delete of it answers 404.
C20_DeleteById == [][C20_Step]_vars

\* Of two created results one was deleted, and a second delete of its id has
\* been answered 404.
C20_Witness ==
  /\ res.route = "DELETE /api/results/:id"
  /\ res.status = 404
  /\ res.req.id \in issued \ SeedIds
  /\ Len(toolResults) = 1
  /\ Len(networkEvents) = Len(mockEvents)
  /\ Cardinality(issued \ SeedIds) = 2

\* The stored results of a tool.
ResultsOfTool(toolName) ==
  {toolResults[k] : k \in {k \in 1..Len(toolResults) : toolResults[k].toolName = toolName}}

DnsRequests ==
  {r \in Reqs : /\ req[r].tool = "dns-lookup"
                /\ req[r].variant # "mock"
                /\ Truthy(req[r].body.domain)}

\* C22: a dns-lookup request with a non-empty domain and a recordType outside A,
\* AAAA, MX, TXT, CNAME, NS, SRV, SOA is answered 400, calls no resolver
\* function and stores nothing; one with a supported recordType calls exactly
\* one resolver function, the one of its type, once.
C22_RecordTypes ==
  \A r \in DnsRequests :
    LET recordType == Default(req[r].body.recordType, Str("A"))
    IN  IF recordType \in {Str("A"), Str("AAAA"), Str("MX"), Str("TXT"), Str("CNAME"),
                           Str("NS"), Str("SRV"), Str("SOA")}
        THEN /\ Len(calls[r]) = 1
             /\ recordType = Str("A") => calls[r] = <<"resolve4">>
             /\ recordType = Str("MX") => calls[r] = <<"resolveMx">>
        ELSE /\ calls[r] = <<>>
             /\ pc[r] = "done"
             /\ resp[r].status = 400
             /\ toolResults = <<>>

\* A PTR lookup has been answered 400.
C22_Witness ==
  /\ 1 \in DnsRequests
  /\ req[1].variant = "attach"
  /\ req[1].body.recordType = Str("PTR")
  /\ pc[1] = "done"
  /\ resp[1].status = 400

\* The ping requests of the serverless handler whose subprocess has failed.
FallbackRuns ==
  {r \in Reqs : req[r].tool = "ping" /\ req[r].variant = "attach" /\ threw[r]}

\* The connect attempts of the probes of request r: its calls after execFile.
Probes(r) == SubSeq(calls[r], 2, Len(calls[r]))

\* What C23 states of a failed ping subprocess, with the bound on received left
\* open: the probes are at most max(1, min(count, 4)), one connect attempt each,
\* to 80 and 443 in turn, one in flight at a time; the answer is 200 after
\* exactly that many probes, with received the number of successful ones, at
\* most bound.
FallbackProbes(r, bound(_)) ==
  LET count == Default(req[r].body.count, Num(4)).n
      capped == IF count < 4 THEN count ELSE 4
      trials == IF capped > 1 THEN capped ELSE 1
      probes == Probes(r)
  IN  /\ calls[r][1] = "execFile"
      /\ Len(probes) <= trials
      /\ \A k \in 1..Len(probes) :
           probes[k] = IF k % 2 = 1 THEN "connect 80" ELSE "connect 443"
      /\ pc[r] \in {"probe", "done"}
      /\ pc[r] = "probe" => Len(probes) = local[r].i + 1
      /\ Len(local[r].samples) <= local[r].i
      /\ pc[r] = "done" =>
           /\ Len(probes) = trials
           /\ local[r].i = trials
           /\ resp[r].status = 200
           /\ resp[r].body.results.o.statistics.received = Len(local[r].samples)
           /\ Len(local[r].samples) <= bound(count)

\* C23 as stated: after a failed ping subprocess the serverless handler makes
\* exactly max(1, min(count, 4)) probes, alternating 80 and 443, each settling
\* once, and answers 200, never 500, with received = the number of successful
\* probes <= min(count, 4).
C23_PingFallback ==
  \A r \in FallbackRuns :
    FallbackProbes(r, LAMBDA count : IF count < 4 THEN count ELSE 4)

\* C23, amended: the same, with received <= max(1, min(count, 4)), the number
\* of probes: a count below 1 still makes one probe.
C23_PingFallbackBound ==
  \A r \in FallbackRuns :
    FallbackProbes(r, LAMBDA count : IF count < 1 THEN 1 ELSE IF count < 4 THEN count ELSE 4)

\* A ping of count 5 whose subprocess failed has been answered after four
\* probes, two of them successful.
C23_Witness ==
  /\ 1 \in FallbackRuns
  /\ req[1].body.count = Num(5)
  /\ pc[1] = "done"
  /\ Len(Probes(1)) = 4
  /\ Len(local[1].samples) = 2

\* The positive reply times of a stored ping result.
PositiveTimes(result) ==
  LET pings == result.results.o.pings
  IN  {pings[k].time.n : k \in {k \in 1..Len(pings) :
                                  pings[k].time.t = "number" /\ pings[k].time.n > 0}}

\* C24: in every stored ping result with a reply of positive time, minTime and
\* maxTime are the smallest and the largest reply time and minTime <= avgTime
\* <= maxTime; with no reply of positive time the three are null.
C24_PingAggregates ==
  \A result \in PingResults :
    LET stats == result.results.o.statistics
        times == PositiveTimes(result)
    IN  IF times # {}
        THEN /\ stats.minTime.t = "number"
             /\ stats.avgTime.t = "number"
             /\ stats.maxTime.t = "number"
             /\ \A t \in times : stats.minTime.n <= t /\ t <= stats.maxTime.n
             /\ stats.minTime.n \in times
             /\ stats.maxTime.n \in times
             /\ stats.minTime.n <= stats.avgTime.n
             /\ stats.avgTime.n <= stats.maxTime.n
        ELSE /\ stats.minTime = Null
             /\ stats.avgTime = Null
             /\ stats.maxTime = Null

\* The stored results of the subnet calculator.
SubnetCalculations ==
  {toolResults[k] : k \in {k \in 1..Len(toolResults) :
                              toolResults[k].toolName = Str("subnet-calculate")}}

\* addr (or the part of it before a "/") is a dotted quad of the original
\* network ipAddress/maskBits: four decimal fields, the first three those of
\* ipAddress, the last one an octet inside the block of the original network.
InOriginalNetwork(addr, ipAddress, maskBits) ==
  LET fields == Split(Split(addr, "/")[1], ".")
      own == Split(ipAddress, ".")
      size == Pow2(32 - maskBits)
      host == parseInt(own[4]).n
      low == IF maskBits >= 24 THEN host - (host % size) ELSE 0
      high == IF maskBits >= 24 THEN low + size - 1 ELSE 255
  IN  /\ Len(fields) = 4
      /\ SubSeq(fields, 1, 3) = SubSeq(own, 1, 3)
      /\ fields[4] # <<>>
      /\ \A i \in 1..Len(fields[4]) : IsDigit(fields[4][i])
      /\ parseInt(fields[4]).n \in 0..255
      /\ parseInt(fields[4]).n \in low..high

\* C25: for the mask lengths the client offers, every network, firstHost,
\* lastHost and broadcast of a computed subnet is a valid IPv4 address (its last
\* octet in 0..255) inside the original network ipAddress/maskBits.
C25_SubnetAddressesValid ==
  \A result \in SubnetCalculations :
    LET ipAddress == result.parameters.o.ipAddress.c
        maskBits == parseInt(result.parameters.o.subnetMask.c).n
        subnets == result.results.o.subnets
    IN  \A j \in 1..Len(subnets) :
          /\ InOriginalNetwork(subnets[j].network, ipAddress, maskBits)
          /\ InOriginalNetwork(subnets[j].firstHost, ipAddress, maskBits)
          /\ InOriginalNetwork(subnets[j].lastHost, ipAddress, maskBits)
          /\ InOriginalNetwork(subnets[j].broadcast, ipAddress, maskBits)

\* C26: for every prefix length c of 0..32, maskToCidr(cidrToMask(c)) = c.
C26_MaskRoundTrip ==
  (conv.cidr # Undefined /\ conv.back # Undefined) => conv.back = conv.cidr

\* C27, one step of the limiter: the request of one IP leaves the bucket of
\* every other IP as it was, and its outcome is 429 exactly when its own count
\* exceeds maxReq; arriving more than windowMs after the window start of its
\* IP it sets the count to 1, takes this moment as the window start and is
\* admitted; otherwise it adds one to the count, also when it is answered 429.
C27_Step ==
  passed' # passed =>
    LET hit == passed'[Len(passed')]
        ip == hit.ip
        known == ip \in DOMAIN ipToHits
        expired == known /\ now - ipToHits[ip].windowStart > windowMs
    IN  /\ passed' = Append(passed, hit)
        /\ DOMAIN ipToHits' = DOMAIN ipToHits \cup {ip}
        /\ \A other \in DOMAIN ipToHits \ {ip} : ipToHits'[other] = ipToHits[other]
        /\ (hit.outcome = "429") = (ipToHits'[ip].count > maxReq)
        /\ expired => /\ ipToHits'[ip] = [count |-> 1, windowStart |-> now]
                      /\ hit.outcome = "next"
        /\ (known /\ ~expired) =>
             /\ ipToHits'[ip].count = ipToHits[ip].count + 1
             /\ ipToHits'[ip].windowStart = ipToHits[ip].windowStart
        /\ ~known => ipToHits'[ip] = [count |-> 1, windowStart |-> now]

C27_LimiterIsolation == [][C27_Step]_vars

\* One IP has been answered 429 and, its window over, admitted again with the
\* count 1, while another IP has a bucket of its own.
C27_Witness ==
  \E i, j \in 1..Len(passed) :
    /\ i < j
    /\ passed[i].ip = passed[j].ip
    /\ passed[i].outcome = "429"
    /\ j = Len(passed)
    /\ passed[j].outcome = "next"
    /\ ipToHits[passed[j].ip] = [count |-> 1, windowStart |-> now]
    /\ \E other \in DOMAIN ipToHits : other # passed[j].ip /\ ipToHits[other].count >= 1

\* list holds every record of the set all once, the later created before the
\* earlier created.
ListsAll(list, all) ==
  /\ {list[k] : k \in 1..Len(list)} = all
  /\ Len(list) = Cardinality(all)
  /\ \A j, k \in 1..Len(list) : j < k => list[j].createdAt >= list[k].createdAt

C29_Step ==
  (/\ res'.route = "updateNetworkEvent"
   /\ res' # res \/ networkEvents' # networkEvents)
  => LET id == res'.req.id
         patch == res'.req.patch
     IN  IF MapHas(networkEvents, id)
         THEN /\ Len(networkEvents') = Len(networkEvents)
              /\ \A k \in 1..Len(networkEvents) :
                   IF networkEvents[k].id = id
                   THEN /\ \A f \in DOMAIN networkEvents[k] :
                             networkEvents'[k][f] =
                               IF f \in DOMAIN patch THEN patch[f] ELSE networkEvents[k][f]
                        /\ networkEvents'[k].id = id
                        /\ networkEvents'[k].createdAt = networkEvents[k].createdAt
                        /\ res'.body = networkEvents'[k]
                   ELSE networkEvents'[k] = networkEvents[k]
         ELSE /\ res'.body = Undefined
              /\ networkEvents' = networkEvents

\* C29: the store starts with exactly the 4 seeded events; updateNetworkEvent
\* of a stored id changes only the fields of the patch, in that one event, keeps
\* its id and createdAt and leaves every other event as it was; for an id that is
\* not stored it returns undefined and leaves the event map as it was.
C29_EventPatch ==
  /\ Len(networkEvents) = 4
  /\ networkEvents = initializeMockEvents
  /\ [][C29_Step]_vars

\* A seeded event has been patched, after the clock advanced and an event was
\* created, and is the only event that differs from its seed.
C29_Witness ==
  /\ res.route = "updateNetworkEvent"
  /\ res.body # Undefined
  /\ now > 0
  /\ Len(networkEvents) = 5
  /\ \E k \in 1..4 :
       /\ networkEvents[k] # initializeMockEvents[k]
       /\ networkEvents[k].id = res.req.id
       /\ networkEvents[k].createdAt = 0
       /\ \A j \in (1..4) \ {k} : networkEvents[j] = initializeMockEvents[j]

\* The data points the interval of the running session has produced: one for
\* every period since the start.
SessionPoints ==
  [k \in 1..((clock - startTimeRef) \div TimerPeriod) |->
     [timestamp |-> startTimeRef + k * TimerPeriod]]

\* At most 100 data points are held, while monitoring the newest of the
\* session, and at most one interval timer is live, none when not monitoring.
C30_Bounded ==
  /\ Len(bandwidthData) <= 100
  /\ isMonitoring => bandwidthData = SliceLast(SessionPoints, 100)
  /\ \A j, k \in 1..Len(bandwidthData) :
       j < k => bandwidthData[j].timestamp < bandwidthData[k].timestamp
  /\ Cardinality(timers) <= 1
  /\ ~isMonitoring => timers = {}

\* A step taken while nothing is monitored appends no data point.
C30_Step ==
  ~isMonitoring => (bandwidthData' = bandwidthData \/ bandwidthData' = <<>>)

====
